---- MODULE Spec2Model ----
(***************************************************************************)
(* Motorized box-joint jig firmware: the Customizable variant              *)
(* (CustomizableBoxCutter.ino), the Simple variant (SimpleBoxCutter.ino)   *)
(* and the legacy variant (src/unnamed/part_000).  All distances are       *)
(* uint16_t thousandths of an inch.                                        *)
(*                                                                         *)
(* Spec: the main menu, the cut-type menu and the cut menu of the          *)
(* Customizable and the Simple variant.  One step is one iteration of      *)
(* loop() in which the polled menu handler does something: it redraws the  *)
(* display, or it handles one button press to completion (the handlers     *)
(* block until the button is released and until the stepper has            *)
(* finished).  The configuration in memory is chosen in Init.              *)
(*                                                                         *)
(* LegacySpec: Spec, and the same menus of the legacy variant.             *)
(*                                                                         *)
(* FirmwareSpec: the two variants from power-on, with setup() reading or   *)
(* initializing the EEPROM, the configuration menus and the saves, and a   *)
(* cut session at the end of the run.                                      *)
(*                                                                         *)
(* ProgrammingSpec: the Customizable variant from power-on on a saved     *)
(* pattern, with the configuration menus and the slot-programming menu     *)
(* driven for as many Set presses as it takes to pass the end of the       *)
(* pattern.                                                                *)
(*                                                                         *)
(* SteppingSpec: the cut menu with every poll, every wait for a release    *)
(* and every motor step a step of its own, and an operator who presses     *)
(* and releases buttons in between.                                        *)
(***************************************************************************)
EXTENDS Integers, Naturals, Sequences, FiniteSets, TLC

\* ------------------------------------------------------------------------
\* Program constants
\* ------------------------------------------------------------------------
MAX_PROGRAMMATIC_SLOTS == 64

MAIN_MENU == 0

CUT_MENU == 1

CONFIG_MENU == 3

CONFIG_CHANGE_VALUE_MENU == 4

CUT_TYPE_MENU == 7

\* The number of entries of the config menu: 7 in the Customizable variant
\* (the last one programs the pattern), 6 in the Simple variant.
MAX_CONFIG_OPTIONS == 7

Simple_MAX_CONFIG_OPTIONS == 6

\* uint16_t motorSpeed = 100: stored with the settings, changed by no menu.
motorSpeed == 100

\* The byte writeSettings puts at address 0 and setup() looks for.
SettingsMarker == 215

\* uint16_t arithmetic: every stored result is reduced modulo 2^16.
TwoTo16 == 65536

U16(x) == x % TwoTo16

\* A uint32_t (lengthOfWood) is kept as its four bytes, low byte first, as
\* the AVR stores it and as EEPROM.put and EEPROM.get copy it.
U32Bytes(n) ==
  <<n % 256, (n \div 256) % 256, (n \div 65536) % 256,
    (n \div 16777216) % 256>>

\* x + 1 and x - 1 on a uint32_t, with the carry and the borrow.
U32Inc(b) ==
  IF b[1] < 255 THEN <<b[1] + 1, b[2], b[3], b[4]>>
  ELSE IF b[2] < 255 THEN <<0, b[2] + 1, b[3], b[4]>>
  ELSE IF b[3] < 255 THEN <<0, 0, b[3] + 1, b[4]>>
  ELSE IF b[4] < 255 THEN <<0, 0, 0, b[4] + 1>>
  ELSE <<0, 0, 0, 0>>

U32Dec(b) ==
  IF b[1] > 0 THEN <<b[1] - 1, b[2], b[3], b[4]>>
  ELSE IF b[2] > 0 THEN <<255, b[2] - 1, b[3], b[4]>>
  ELSE IF b[3] > 0 THEN <<255, 255, b[3] - 1, b[4]>>
  ELSE IF b[4] > 0 THEN <<255, 255, 255, b[4] - 1>>
  ELSE <<255, 255, 255, 255>>

\* The low 16 bits of the uint32_t quotient b / n for a uint16_t n > 0, by
\* long division on the bytes from the high one down.
U32DivToU16(b, n) ==
  LET r3 == b[4] % n
      r2 == (r3 * 256 + b[3]) % n
      q1 == (r2 * 256 + b[2]) \div n
      r1 == (r2 * 256 + b[2]) % n
      q0 == (r1 * 256 + b[1]) \div n
  IN  q1 * 256 + q0

\* byte(x): the low eight bits.
Byte(x) == x % 256

\* Unary minus on a uint16_t.
Neg16(x) == U16(TwoTo16 - x)

\* unsigned long int stepsPerThou = 4, in moveStepper.
stepsPerThou == 4

\* ------------------------------------------------------------------------
\* Bounds of the model
\* ------------------------------------------------------------------------
\* The counters that observe a session (moves issued, quadruples computed)
\* saturate at this value; the program itself is not restricted by it.
MaxCount == 8

\* The configuration menus handle at most this many value-changing presses
\* (Up, Down, Set and the two jog presses) in a run.
MaxEdits == 1

\* With the configuration menus in play a session handles at most this many
\* advance presses.
MaxMoves == 1

\* The slot-programming menu handles at most this many Set and jog presses
\* in a run of ProgrammingSpec: enough for configSlotCount to pass 64.
MaxPresses == 66

\* In a run of ProgrammingSpec the jog presses are among the first MaxJogs
\* presses of the slot-programming menu.
MaxJogs == 3

\* ------------------------------------------------------------------------
\* Inputs: the configurations the operator can have set up before a session
\* ------------------------------------------------------------------------
Variants == {"Customizable", "Simple"}

\* (slot width, kerf, slop, maxAdvance).  Every uint16_t value of each field
\* is reachable in memory through the Up/Down presses of the config menu.
Configurations ==
  { <<500, 123, 2, 120>>,      \* the defaults of the firmware
    <<125, 123, 2, 120>>,      \* a narrow slot: one pass per valley
    <<121, 123, 2, 120>>,      \* slot + slop = kerf: nothing left to cut
    <<500, 123, 2, 0>>,        \* maxAdvance of 0
    <<50, 10, 2, 600>>,        \* maxAdvance larger than any cut
    <<100, 123, 2, 40000>>,    \* kerf > slot + slop: the cut distance wraps
    <<10, 5, 20, 120>>,        \* slop > slot + kerf: the move distance wraps
    <<65535, 255, 65535, 50000>> }

PatternExample ==
  [i \in 0..(MAX_PROGRAMMATIC_SLOTS - 1) |->
     IF i = 0 THEN 200 ELSE IF i = 1 THEN 300 ELSE IF i = 2 THEN 450
     ELSE IF i = 3 THEN 300 ELSE IF i = 4 THEN 200 ELSE 0]

\* The initializer of programmaticSlots in the source.
PatternDefault ==
  [i \in 0..(MAX_PROGRAMMATIC_SLOTS - 1) |-> IF i < 32 THEN 125 ELSE 0]

\* All 64 entries programmed, all different.
PatternFull == [i \in 0..(MAX_PROGRAMMATIC_SLOTS - 1) |-> 201 + i]

\* The Simple variant has no pattern.
NoPattern == [i \in 0..(MAX_PROGRAMMATIC_SLOTS - 1) |-> 0]

\* A single programmed entry.
PatternSingle ==
  [i \in 0..(MAX_PROGRAMMATIC_SLOTS - 1) |-> IF i = 0 THEN 300 ELSE 0]

Patterns == {PatternExample, PatternDefault, PatternFull, PatternSingle}

\* The (configuration, pattern) pairs a run of the Customizable variant
\* starts from: every configuration with the example pattern, and every
\* pattern with the default configuration and with one whose move distance
\* wraps.
Setups ==
  (Configurations \X {PatternExample})
    \cup ({<<500, 123, 2, 120>>, <<10, 5, 20, 120>>} \X Patterns)

VARIABLES
  variant,                  \* which firmware is running
  state,                    \* int state: the menu shown
  refreshDisplay,
  isUniformCut,
  isCutFirst,
  kerf, slop, maxAdvance,
  uniformSlot,              \* uniformSlot (Customizable), slot (Simple)
  programmaticSlots,
  programmaticIndex,
  initialDTMValley, initialDTMFinger, subDTMValley, subDTMFinger,
  currentValleySize, currentFingerSize,
  distanceRemainingToCut, distanceRemainingToMove,
  motorEnabled,             \* MOTOR_ENABLE_PIN is LOW
  button,                   \* the button the last handler call found pressed
  moveCount,                \* moveStepper calls since the session started
  lastMove,                 \* the last moveStepper call and its outcome
  travel,                   \* the distance and the relocations asked of
                            \* moveStepper since the session started
  dmvCount,                 \* determineMovementValues calls since then
  lastDMV,                  \* the inputs of the last such call
  configOption,             \* the entry selected in the config menu
  lengthOfWood, numberOfSlots,
  configSlotCount, configSlotDistance,
  eeprom,                   \* the EEPROM, address -> byte
  eepromAccess,             \* what the last handler call did to the EEPROM
  edits,                    \* value-changing presses handled so far
  pc,                       \* where the program is: in loop(), waiting for a
                            \* release, or inside moveStepper
  held,                     \* the buttons the operator holds down
  sensed                    \* the input pins the last program step read

parameters == <<kerf, slop, maxAdvance, uniformSlot, programmaticSlots>>

quadruple == <<initialDTMValley, initialDTMFinger, subDTMValley, subDTMFinger>>

currentSizes == <<currentValleySize, currentFingerSize>>

remaining == <<distanceRemainingToCut, distanceRemainingToMove>>

moveLog == <<moveCount, lastMove, travel>>

dmvLog == <<dmvCount, lastDMV>>

\* What only the cut-type menu and the cut menu change.
session == <<isUniformCut, isCutFirst, programmaticIndex, quadruple,
             currentSizes, remaining, dmvLog>>

\* The settings writeSettings() stores.
settingsVars == <<parameters, lengthOfWood, numberOfSlots>>

\* What only the configuration menus change.
configSide == <<configOption, lengthOfWood, numberOfSlots, configSlotCount,
                configSlotDistance, eeprom, edits>>

\* What only the step-by-step account of the cut menu changes.
stepping == <<pc, held, sensed>>

vars == <<variant, state, refreshDisplay, isUniformCut, isCutFirst,
          parameters, programmaticIndex, quadruple, currentSizes, remaining,
          motorEnabled, button, moveLog, dmvLog, configSide, eepromAccess,
          stepping>>

\* The configuration in memory, as writeSettings() finds it.
settings ==
  [kerf |-> kerf, slop |-> slop, maxAdvance |-> maxAdvance,
   uniformSlot |-> uniformSlot, lengthOfWood |-> lengthOfWood,
   numberOfSlots |-> numberOfSlots, programmaticSlots |-> programmaticSlots]

Bump(n) == IF n < MaxCount THEN n + 1 ELSE MaxCount

NoMove == [dist |-> 0, isLeft |-> FALSE, steps |-> 0, ok |-> TRUE]

NoTravel == [thou |-> 0, relocations |-> 0]

\* The travel after one more moveStepper(dist, isLeft) call, counted toward
\* the blade (isLeft) and back; relocation tells the call that follows a
\* completed valley from a cut pass.  Like moveCount, the travel is
\* observed for the first MaxCount - 1 moves of a session.
Travelled(dist, isLeft, relocation) ==
  IF Bump(moveCount) < MaxCount
    THEN [thou |-> travel.thou + (IF isLeft THEN dist ELSE 0 - dist),
          relocations |-> travel.relocations
                            + (IF relocation THEN 1 ELSE 0)]
    ELSE NoTravel

NoDMV == [valley |-> 0, finger |-> 0, kerf |-> 0, slop |-> 0]

\* ------------------------------------------------------------------------
\* Functions of the firmware
\* ------------------------------------------------------------------------

\* A faulty determineMovementValues that forgets the kerf term of the
\* subsequent cut distance.
determineMovementValues_noKerf(valleySize, fingerSize, k, s) ==
  [ initialDTMValley |-> U16(U16(valleySize + s) + 0),
    initialDTMFinger |-> U16(U16(fingerSize + Neg16(s)) + k),
    subDTMValley     |-> U16(U16(valleySize + s) + 0),
    subDTMFinger     |-> U16(U16(fingerSize + Neg16(s)) + k) ]

\* A faulty determineMovementValues that takes the slop off the finger
\* twice.
determineMovementValues_twoSlops(valleySize, fingerSize, k, s) ==
  [ initialDTMValley |-> U16(U16(valleySize + s) + 0),
    initialDTMFinger |-> U16(U16(fingerSize + Neg16(U16(s + s))) + k),
    subDTMValley     |-> U16(U16(valleySize + s) + Neg16(k)),
    subDTMFinger     |-> U16(U16(fingerSize + Neg16(U16(s + s))) + k) ]

\* A faulty determineMovementValues that takes the kerf off the move
\* distances instead of adding it.
determineMovementValues_minusKerf(valleySize, fingerSize, k, s) ==
  [ initialDTMValley |-> U16(U16(valleySize + s) + 0),
    initialDTMFinger |-> U16(U16(fingerSize + Neg16(s)) + Neg16(k)),
    subDTMValley     |-> U16(U16(valleySize + s) + Neg16(k)),
    subDTMFinger     |-> U16(U16(fingerSize + Neg16(s)) + Neg16(k)) ]

\* A faulty determineMovementValues that adds the slop to the move
\* distances instead of taking it off.
determineMovementValues_plusSlop(valleySize, fingerSize, k, s) ==
  [ initialDTMValley |-> U16(U16(valleySize + s) + 0),
    initialDTMFinger |-> U16(U16(fingerSize + s) + k),
    subDTMValley     |-> U16(U16(valleySize + s) + Neg16(k)),
    subDTMFinger     |-> U16(U16(fingerSize + s) + k) ]

\* A faulty determineMovementValues that adds the kerf to the subsequent
\* cut distance instead of taking it off.
determineMovementValues_kerfOnCut(valleySize, fingerSize, k, s) ==
  [ initialDTMValley |-> U16(U16(valleySize + s) + 0),
    initialDTMFinger |-> U16(U16(fingerSize + Neg16(s)) + k),
    subDTMValley     |-> U16(U16(valleySize + s) + k),
    subDTMFinger     |-> U16(U16(fingerSize + Neg16(s)) + k) ]

\* A faulty determineMovementValues with hidden state: the pattern cursor
\* leaks into the move distances.
determineMovementValues_hiddenState(valleySize, fingerSize, k, s) ==
  [ initialDTMValley |-> U16(U16(valleySize + s) + 0),
    initialDTMFinger |-> U16(U16(fingerSize + Neg16(s)) + k),
    subDTMValley     |-> U16(U16(valleySize + s) + Neg16(k)),
    subDTMFinger     |-> U16(U16(U16(fingerSize + Neg16(s)) + k)
                             + programmaticIndex) ]

\* determineMovementValues(valleySize, fingerSize) of the Customizable
\* variant, reading the globals slop (s) and kerf (k).  Each + is a uint16_t
\* addition and -x the uint16_t negation, evaluated left to right.
determineMovementValues(valleySize, fingerSize, k, s) ==
  [ initialDTMValley |-> U16(U16(valleySize + s) + 0),
    initialDTMFinger |-> U16(U16(fingerSize + Neg16(s)) + k),
    subDTMValley     |-> U16(U16(valleySize + s) + Neg16(k)),
    subDTMFinger     |-> U16(U16(fingerSize + Neg16(s)) + k) ]

\* determineMovementValues(slotSize) of the Simple variant.
Simple_determineMovementValues(slotSize, k, s) ==
  [ initialDTMValley |-> U16(U16(slotSize + s) + 0),
    initialDTMFinger |-> U16(U16(slotSize + Neg16(s)) + k),
    subDTMValley     |-> U16(U16(slotSize + s) + Neg16(k)),
    subDTMFinger     |-> U16(U16(slotSize + Neg16(s)) + k) ]

\* A faulty setupForCut that seeds a positive session with the subsequent
\* cut distance.
setupForCut_subsequent(cutFirst, q) ==
  IF cutFirst
    THEN [cut |-> q.subDTMValley, move |-> q.subDTMFinger]
    ELSE [cut |-> 0, move |-> q.initialDTMFinger]

\* setupForCut(cutFirst): the two remaining distances it assigns, given the
\* stored quadruple q.
setupForCut(cutFirst, q) ==
  IF cutFirst
    THEN [cut |-> q.initialDTMValley, move |-> q.subDTMFinger]
    ELSE [cut |-> 0, move |-> q.initialDTMFinger]

\* A faulty d() with the comparison inverted.
d_inverted(cut, advance) == IF cut < advance THEN advance ELSE cut

\* A faulty d() that takes passes of one thousandth.
d_oneThou(cut, advance) == IF cut > 0 THEN 1 ELSE 0

\* A faulty d() that always takes a pass of maxAdvance.
d_wholeAdvance(cut, advance) == advance

\* d(): the length of the next cut pass.
d(cut, advance) == IF cut > advance THEN advance ELSE cut

\* A faulty getNextProgrammaticSlotSize that wraps at the end of the array
\* only, not at the sentinel.
getNextProgrammaticSlotSize_noSentinel(slots, index) ==
  LET next == U16(index + 1)
      cursor == IF next >= MAX_PROGRAMMATIC_SLOTS THEN 0 ELSE next
  IN  [index |-> cursor, size |-> slots[cursor]]

\* A faulty getNextProgrammaticSlotSize that resets the cursor but returns
\* the sentinel it found.
getNextProgrammaticSlotSize_returnsSentinel(slots, index) ==
  LET next == U16(index + 1)
      wrapped == IF next >= MAX_PROGRAMMATIC_SLOTS THEN TRUE
                 ELSE slots[next] = 0
  IN  [index |-> IF wrapped THEN 0 ELSE next,
       size |-> IF next >= MAX_PROGRAMMATIC_SLOTS THEN slots[0]
                ELSE slots[next]]

\* A faulty getNextProgrammaticSlotSize that stops at the last entry
\* instead of wrapping.
getNextProgrammaticSlotSize_stays(slots, index) ==
  LET next == U16(index + 1)
      wrapped == IF next >= MAX_PROGRAMMATIC_SLOTS THEN TRUE
                 ELSE slots[next] = 0
      cursor == IF wrapped THEN index ELSE next
  IN  [index |-> cursor, size |-> slots[cursor]]

\* A faulty getNextProgrammaticSlotSize that wraps to entry 1.
getNextProgrammaticSlotSize_wrapsToOne(slots, index) ==
  LET next == U16(index + 1)
      wrapped == IF next >= MAX_PROGRAMMATIC_SLOTS THEN TRUE
                 ELSE slots[next] = 0
      cursor == IF wrapped THEN 1 ELSE next
  IN  [index |-> cursor, size |-> slots[cursor]]

\* A faulty getNextProgrammaticSlotSize that tests the cursor with > in
\* place of >=: the cursor can stand one past the array, where the read
\* finds whatever follows the array (taken as non-zero in the test and as 0
\* in the result).
getNextProgrammaticSlotSize_offByOne(slots, index) ==
  LET next == U16(index + 1)
      wrapped == IF next > MAX_PROGRAMMATIC_SLOTS THEN TRUE
                 ELSE IF next = MAX_PROGRAMMATIC_SLOTS THEN FALSE
                 ELSE slots[next] = 0
      cursor == IF wrapped THEN 0 ELSE next
  IN  [index |-> cursor,
       size |-> IF cursor \in DOMAIN slots THEN slots[cursor] ELSE 0]

\* getNextProgrammaticSlotSize(): the new cursor and the returned width.
\* The || of the source short-circuits, so slots is never read at 64.
getNextProgrammaticSlotSize(slots, index) ==
  LET next == U16(index + 1)
      wrapped == IF next >= MAX_PROGRAMMATIC_SLOTS THEN TRUE
                 ELSE slots[next] = 0
      cursor == IF wrapped THEN 0 ELSE next
  IN  [index |-> cursor, size |-> slots[cursor]]

\* A faulty pair fetch that takes the finger first.
nextProgrammaticPair_fingerFirst(slots, index) ==
  LET finger == getNextProgrammaticSlotSize(slots, index)
      valley == getNextProgrammaticSlotSize(slots, finger.index)
  IN  [index |-> valley.index, valleySize |-> valley.size,
       fingerSize |-> finger.size]

\* A faulty pair fetch that takes the finger from the entry after the
\* valley without testing it for the sentinel.
nextProgrammaticPair_peeksFinger(slots, index) ==
  LET valley == getNextProgrammaticSlotSize(slots, index)
      next == valley.index + 1
  IN  [index |-> IF next \in DOMAIN slots THEN next ELSE 0,
       valleySize |-> valley.size,
       fingerSize |-> IF next \in DOMAIN slots THEN slots[next]
                      ELSE slots[0]]

\* The pair showCutMenu fetches after a relocation in programmatic mode:
\* two calls of getNextProgrammaticSlotSize, the valley first.
nextProgrammaticPair(slots, index) ==
  LET valley == getNextProgrammaticSlotSize(slots, index)
      finger == getNextProgrammaticSlotSize(slots, valley.index)
  IN  [index |-> finger.index, valleySize |-> valley.size,
       fingerSize |-> finger.size]

\* moveStepper(thousDistance, isLeft) of the Customizable variant: every
\* step is issued and the result is always true.
moveStepper(thousDistance, isLeft) ==
  [dist |-> thousDistance, isLeft |-> isLeft,
   steps |-> thousDistance * stepsPerThou, ok |-> TRUE]

\* The steps after which the home switch can be seen pressed during a move
\* of n steps: never (0), after the first step, after the last step.
SwitchTrips(n) == {0} \cup {t \in {1, n} : t >= 1}

\* moveStepper(thousDistance, isLeft) of the Simple variant: the home switch
\* is sampled after every step and the move stops with false when it reads
\* pressed; trip is the step after which that happens, 0 for never.
Simple_moveStepper(thousDistance, isLeft, trip) ==
  LET numberOfSteps == thousDistance * stepsPerThou
  IN  IF trip >= 1 /\ trip <= numberOfSteps
        THEN [dist |-> thousDistance, isLeft |-> isLeft,
              steps |-> trip, ok |-> FALSE]
        ELSE [dist |-> thousDistance, isLeft |-> isLeft,
              steps |-> numberOfSteps, ok |-> TRUE]

\* A faulty legacy determineMovementValues that takes the kerf off the
\* initial cut as it does off the later ones.
Legacy_determineMovementValues_initialKerf(slotSize, k, s) ==
  [ initialDTMValley |-> U16(U16(slotSize + s) + Neg16(k)),
    initialDTMFinger |-> U16(U16(slotSize + Neg16(U16(s + s))) + k),
    subDTMValley     |-> U16(U16(slotSize + U16(s + s)) + Neg16(k)),
    subDTMFinger     |-> U16(U16(slotSize + Neg16(U16(s + s))) + k) ]

\* determineMovementValues() of the legacy variant, on the globals slot,
\* kerf (k) and slop (s).  Its four results initialDistanceToCut,
\* initialDistanceToMove, distanceToCut and distanceToMove are kept in
\* initialDTMValley, initialDTMFinger, subDTMValley and subDTMFinger.
Legacy_determineMovementValues(slotSize, k, s) ==
  [ initialDTMValley |-> U16(slotSize + s),
    initialDTMFinger |-> U16(U16(slotSize + Neg16(U16(s + s))) + k),
    subDTMValley     |-> U16(U16(slotSize + U16(s + s)) + Neg16(k)),
    subDTMFinger     |-> U16(U16(slotSize + Neg16(U16(s + s))) + k) ]

\* The value of a 16-bit two's complement int holding x.
Int16(x) == IF U16(x) >= 32768 THEN U16(x) - TwoTo16 ELSE U16(x)

\* int numberOfSteps = (int)((int) thousDistance * stepsPerThou) of the
\* legacy moveStepper.  Where int has 32 bits this is the product; where it
\* has 16 bits (the AVR boards) the conversion of a distance above 32767 is
\* implementation-defined and a product outside the int range overflows,
\* which leaves the wrapped value.
Legacy_numberOfSteps(thousDistance) ==
  {thousDistance * stepsPerThou, Int16(thousDistance * stepsPerThou)}

\* moveStepper(thousDistance, isLeft) of the legacy variant, for a computed
\* numberOfSteps: for (int i = 0; i < numberOfSteps; i++) issues no step
\* when numberOfSteps is not positive; the home switch is sampled after
\* every step as in the Simple variant.
Legacy_moveStepper(thousDistance, isLeft, numberOfSteps, trip) ==
  LET n == IF numberOfSteps > 0 THEN numberOfSteps ELSE 0
  IN  IF trip >= 1 /\ trip <= n
        THEN [dist |-> thousDistance, isLeft |-> isLeft,
              steps |-> trip, ok |-> FALSE]
        ELSE [dist |-> thousDistance, isLeft |-> isLeft,
              steps |-> n, ok |-> TRUE]

\* ------------------------------------------------------------------------
\* Persistent settings
\* ------------------------------------------------------------------------
\* The EEPROM addresses the firmware uses: 15 bytes of scalar settings and
\* two bytes for each pattern entry.
Addresses == 0..(14 + 2 * MAX_PROGRAMMATIC_SLOTS)

\* An EEPROM that was never written.
BlankEEPROM == [a \in Addresses |-> 255]

\* The byte writeSettings() stores at address a <= 12 for the settings c:
\* kerf and maxAdvance as one byte, the other uint16_t values high byte
\* first, lengthOfWood with EEPROM.put (four bytes, low byte first).
ScalarSettingsByte(a, c) ==
  IF a = 0 THEN SettingsMarker
  ELSE IF a = 1 THEN Byte(c.kerf)
  ELSE IF a = 2 THEN Byte(motorSpeed \div 256)
  ELSE IF a = 3 THEN Byte(motorSpeed % 256)
  ELSE IF a = 4 THEN Byte(c.slop \div 256)
  ELSE IF a = 5 THEN Byte(c.slop % 256)
  ELSE IF a >= 6 /\ a <= 9 THEN c.lengthOfWood[a - 5]
  ELSE IF a = 10 THEN Byte(c.numberOfSlots \div 256)
  ELSE IF a = 11 THEN Byte(c.numberOfSlots % 256)
  ELSE Byte(c.maxAdvance)

\* writeSettings() of the Customizable variant: the EEPROM it leaves.
writeSettings(e, c) ==
  [a \in Addresses |->
     IF a <= 12 THEN ScalarSettingsByte(a, c)
     ELSE IF a = 13 THEN Byte(c.uniformSlot \div 256)
     ELSE IF a = 14 THEN Byte(c.uniformSlot % 256)
     ELSE LET i == (a - 15) \div 2
          IN  IF (a - 15) % 2 = 0
                THEN Byte(c.programmaticSlots[i] \div 256)
                ELSE Byte(c.programmaticSlots[i] % 256)]

\* readSettings() of the Customizable variant: the settings it puts in
\* memory.  (x * 256) + y is stored in a uint16_t.
readSettings(e) ==
  [kerf |-> e[1],
   slop |-> U16(e[4] * 256 + e[5]),
   lengthOfWood |-> <<e[6], e[7], e[8], e[9]>>,
   numberOfSlots |-> U16(e[10] * 256 + e[11]),
   maxAdvance |-> e[12],
   uniformSlot |-> U16(e[13] * 256 + e[14]),
   programmaticSlots |->
     [i \in 0..(MAX_PROGRAMMATIC_SLOTS - 1) |->
        U16(e[15 + i * 2] * 256 + e[16 + i * 2])]]

\* writeSettings() of the Simple variant stores the scalar settings only;
\* slot is not stored.
Simple_writeSettings(e, c) ==
  [a \in Addresses |-> IF a <= 12 THEN ScalarSettingsByte(a, c) ELSE e[a]]

\* readSettings() of the Simple variant, on the settings c in memory: slot
\* keeps the value it has.
Simple_readSettings(e, c) ==
  [c EXCEPT !.kerf = e[1],
            !.slop = U16(e[4] * 256 + e[5]),
            !.lengthOfWood = <<e[6], e[7], e[8], e[9]>>,
            !.numberOfSlots = U16(e[10] * 256 + e[11]),
            !.maxAdvance = e[12]]

\* writeSettings() of the legacy variant stores kerf, motorSpeed and slop.
Legacy_writeSettings(e, c) ==
  [a \in Addresses |-> IF a <= 5 THEN ScalarSettingsByte(a, c) ELSE e[a]]

\* uint16_t recalculateSlotSize(): lengthOfWood / numberOfSlots, stored in
\* a uint16_t.  A division by zero is undefined; the AVR division routine
\* then returns all ones, another build may return 0.
recalculateSlotSize(len, n) ==
  IF n = 0 THEN {0, TwoTo16 - 1} ELSE {U32DivToU16(len, n)}

\* The settings after an Up (up = TRUE) or a Down press of the value-change
\* menu on the settings c, for the options 0 (slop), 1 (kerf),
\* 2 (maxAdvance), 3 (slot width), 4 (length), 5 (fingers).
changeValue(c, option, up) ==
  LET step(x) == IF up THEN U16(x + 1) ELSE U16(x + Neg16(1))
  IN  IF option = 0 THEN {[c EXCEPT !.slop = step(c.slop)]}
      ELSE IF option = 1 THEN {[c EXCEPT !.kerf = step(c.kerf)]}
      ELSE IF option = 2 THEN {[c EXCEPT !.maxAdvance = step(c.maxAdvance)]}
      ELSE IF option = 3
        THEN {[c EXCEPT !.uniformSlot = step(c.uniformSlot)]}
      ELSE IF option = 4
        THEN LET len == IF up THEN U32Inc(c.lengthOfWood)
                        ELSE U32Dec(c.lengthOfWood)
             IN  {[c EXCEPT !.lengthOfWood = len, !.uniformSlot = w] :
                    w \in recalculateSlotSize(len, c.numberOfSlots)}
      ELSE IF option = 5
        THEN LET n == step(c.numberOfSlots)
             IN  {[c EXCEPT !.numberOfSlots = n, !.uniformSlot = w] :
                    w \in recalculateSlotSize(c.lengthOfWood, n)}
      ELSE {c}

\* The settings c are put in memory.
StoreSettings(c) ==
  /\ kerf' = c.kerf
  /\ slop' = c.slop
  /\ maxAdvance' = c.maxAdvance
  /\ uniformSlot' = c.uniformSlot
  /\ lengthOfWood' = c.lengthOfWood
  /\ numberOfSlots' = c.numberOfSlots
  /\ programmaticSlots' = c.programmaticSlots

\* The initializers of the settings in the two sources.
Defaults ==
  [kerf |-> 123, slop |-> 2, maxAdvance |-> 120, uniformSlot |-> 0,
   lengthOfWood |-> U32Bytes(4000), numberOfSlots |-> 6,
   programmaticSlots |-> PatternDefault]

Simple_Defaults ==
  [kerf |-> 123, slop |-> 2, maxAdvance |-> 120, uniformSlot |-> 500,
   lengthOfWood |-> U32Bytes(4000), numberOfSlots |-> 6,
   programmaticSlots |-> NoPattern]

\* Settings saved in an earlier run: kerf and maxAdvance at the largest
\* value a save can leave in the EEPROM.
SavedSettings ==
  [kerf |-> 255, slop |-> 2, maxAdvance |-> 255, uniformSlot |-> 500,
   lengthOfWood |-> U32Bytes(4000), numberOfSlots |-> 6,
   programmaticSlots |-> PatternExample]

\* Settings saved in an earlier run: kerf, maxAdvance and the number of
\* fingers at the smallest value the spec allows.
SavedSmallest ==
  [kerf |-> 1, slop |-> 2, maxAdvance |-> 1, uniformSlot |-> 500,
   lengthOfWood |-> U32Bytes(4000), numberOfSlots |-> 1,
   programmaticSlots |-> PatternExample]

\* The EEPROM contents a run can find at power-on: never written, or
\* written by an earlier run of the same variant.
InitialEEPROMs(v) ==
  IF v = "Customizable"
    THEN {BlankEEPROM, writeSettings(BlankEEPROM, SavedSettings),
          writeSettings(BlankEEPROM, SavedSmallest)}
    ELSE {BlankEEPROM,
          Simple_writeSettings(BlankEEPROM,
            [SavedSettings EXCEPT !.programmaticSlots = NoPattern])}

\* ------------------------------------------------------------------------
\* Initial state: setup() has returned, with the configuration in memory
\* ------------------------------------------------------------------------
Init ==
  /\ pc = "loop"
  /\ held = {}
  /\ sensed = {}
  /\ variant \in Variants
  /\ \E c \in Configurations :
       /\ uniformSlot = c[1]
       /\ kerf = c[2]
       /\ slop = c[3]
       /\ maxAdvance = c[4]
       /\ programmaticSlots \in
            IF variant = "Customizable"
              THEN {su[2] : su \in {x \in Setups : x[1] = c}}
              ELSE {NoPattern}
  /\ state = MAIN_MENU
  /\ refreshDisplay = TRUE
  /\ isUniformCut = TRUE
  /\ isCutFirst = TRUE
  /\ programmaticIndex = 0
  /\ currentValleySize = 0
  /\ currentFingerSize = 0
  /\ distanceRemainingToCut = 0
  /\ distanceRemainingToMove = 0
  /\ motorEnabled = TRUE      \* pinMode(OUTPUT) leaves the enable pin LOW
  /\ button = "None"
  /\ moveCount = 0
  /\ lastMove = NoMove
  /\ travel = NoTravel
  /\ configOption = 0
  /\ lengthOfWood = U32Bytes(4000)
  /\ numberOfSlots = 6
  /\ configSlotCount = 0
  /\ configSlotDistance = 0
  /\ eeprom = IF variant = "Customizable"
                THEN writeSettings(BlankEEPROM, settings)
                ELSE Simple_writeSettings(BlankEEPROM, settings)
  /\ eepromAccess = "None"
  /\ edits = 0
  /\ IF variant = "Customizable"
       THEN \* the quadruple is first computed when a session starts
            /\ initialDTMValley = 0
            /\ initialDTMFinger = 0
            /\ subDTMValley = 0
            /\ subDTMFinger = 0
            /\ dmvCount = 0
            /\ lastDMV = NoDMV
       ELSE \* setup() and writeSettings() call determineMovementValues(slot)
            LET q == Simple_determineMovementValues(uniformSlot, kerf, slop)
            IN  /\ initialDTMValley = q.initialDTMValley
                /\ initialDTMFinger = q.initialDTMFinger
                /\ subDTMValley = q.subDTMValley
                /\ subDTMFinger = q.subDTMFinger
                /\ dmvCount = 1
                /\ lastDMV = [valley |-> uniformSlot, finger |-> uniformSlot,
                              kerf |-> kerf, slop |-> slop]

\* ------------------------------------------------------------------------
\* Customizable variant: the menu handlers
\* ------------------------------------------------------------------------

\* showMainMenu(): the redraw switches the motor off; Down starts the
\* uniform cut-type menu, Right the programmatic one.  (Left, which opens
\* the config menu, is showMainMenu_Config.)
showMainMenu ==
  /\ variant = "Customizable"
  /\ state = MAIN_MENU
  /\ \E b \in {"None", "Down", "Right"} :
       /\ button' = b
       /\ motorEnabled' = IF refreshDisplay THEN FALSE ELSE motorEnabled
       /\ IF b = "None"
            THEN /\ refreshDisplay
                 /\ refreshDisplay' = FALSE
                 /\ UNCHANGED <<state, isUniformCut>>
            ELSE /\ isUniformCut' = (b = "Down")
                 /\ state' = CUT_TYPE_MENU
                 /\ refreshDisplay' = TRUE
  /\ UNCHANGED <<variant, isCutFirst, parameters, programmaticIndex,
                 quadruple, currentSizes, remaining, moveLog, dmvLog>>
  /\ eepromAccess' = "None"
  /\ UNCHANGED configSide
  /\ UNCHANGED stepping

\* A faulty showCutTypeMenu that starts a uniform session on the quadruple
\* in memory, left by the session before, without recomputing it.
showCutTypeMenu_keepsQuadruple ==
  /\ variant = "Customizable"
  /\ state = CUT_TYPE_MENU
  /\ \E b \in {"None", "Left", "Down", "Right"} :
       /\ button' = b
       /\ IF b = "None"
            THEN /\ refreshDisplay
                 /\ refreshDisplay' = FALSE
                 /\ UNCHANGED <<state, isCutFirst, programmaticIndex,
                                quadruple, currentSizes, remaining,
                                motorEnabled, moveLog, dmvLog>>
          ELSE IF b = "Down"
            THEN /\ refreshDisplay' = TRUE
                 /\ state' = MAIN_MENU
                 /\ UNCHANGED <<isCutFirst, programmaticIndex, quadruple,
                                currentSizes, remaining, motorEnabled,
                                moveLog, dmvLog>>
          ELSE
            LET cutFirst == (b = "Left")
                valleySize == IF isUniformCut THEN uniformSlot
                              ELSE IF cutFirst THEN programmaticSlots[0]
                              ELSE 0
                fingerSize == IF isUniformCut THEN uniformSlot
                              ELSE IF cutFirst THEN programmaticSlots[1]
                              ELSE programmaticSlots[0]
                q == IF isUniformCut
                       THEN [ initialDTMValley |-> initialDTMValley,
                              initialDTMFinger |-> initialDTMFinger,
                              subDTMValley     |-> subDTMValley,
                              subDTMFinger     |-> subDTMFinger ]
                       ELSE determineMovementValues(valleySize, fingerSize,
                                                    kerf, slop)
                r == setupForCut(cutFirst, q)
            IN  /\ refreshDisplay' = TRUE
                /\ state' = CUT_MENU
                /\ programmaticIndex' =
                     IF isUniformCut THEN programmaticIndex
                     ELSE IF cutFirst THEN 1 ELSE 0
                /\ currentValleySize' = valleySize
                /\ currentFingerSize' = fingerSize
                /\ initialDTMValley' = q.initialDTMValley
                /\ initialDTMFinger' = q.initialDTMFinger
                /\ subDTMValley' = q.subDTMValley
                /\ subDTMFinger' = q.subDTMFinger
                /\ motorEnabled' = TRUE
                /\ isCutFirst' = cutFirst
                /\ distanceRemainingToCut' = r.cut
                /\ distanceRemainingToMove' = r.move
                /\ moveCount' = 0
                /\ lastMove' = NoMove
                /\ travel' = NoTravel
                /\ dmvCount' = 1
                /\ lastDMV' = [valley |-> valleySize, finger |-> fingerSize,
                               kerf |-> kerf, slop |-> slop]
  /\ UNCHANGED <<variant, isUniformCut, parameters>>
  /\ eepromAccess' = "None"
  /\ UNCHANGED configSide
  /\ UNCHANGED stepping

\* showCutTypeMenu(): Left starts a positive session, Right a negative one,
\* Down goes back.  Both starts compute the quadruple of the first pair and
\* call setupForCut.
showCutTypeMenu ==
  /\ variant = "Customizable"
  /\ state = CUT_TYPE_MENU
  /\ \E b \in {"None", "Left", "Down", "Right"} :
       /\ button' = b
       /\ IF b = "None"
            THEN /\ refreshDisplay
                 /\ refreshDisplay' = FALSE
                 /\ UNCHANGED <<state, isCutFirst, programmaticIndex,
                                quadruple, currentSizes, remaining,
                                motorEnabled, moveLog, dmvLog>>
          ELSE IF b = "Down"
            THEN /\ refreshDisplay' = TRUE
                 /\ state' = MAIN_MENU
                 /\ UNCHANGED <<isCutFirst, programmaticIndex, quadruple,
                                currentSizes, remaining, motorEnabled,
                                moveLog, dmvLog>>
          ELSE
            LET cutFirst == (b = "Left")
                valleySize == IF isUniformCut THEN uniformSlot
                              ELSE IF cutFirst THEN programmaticSlots[0]
                              ELSE 0
                fingerSize == IF isUniformCut THEN uniformSlot
                              ELSE IF cutFirst THEN programmaticSlots[1]
                              ELSE programmaticSlots[0]
                q == determineMovementValues(valleySize, fingerSize,
                                             kerf, slop)
                r == setupForCut(cutFirst, q)
            IN  /\ refreshDisplay' = TRUE
                /\ state' = CUT_MENU
                /\ programmaticIndex' =
                     IF isUniformCut THEN programmaticIndex
                     ELSE IF cutFirst THEN 1 ELSE 0
                /\ currentValleySize' = valleySize
                /\ currentFingerSize' = fingerSize
                /\ initialDTMValley' = q.initialDTMValley
                /\ initialDTMFinger' = q.initialDTMFinger
                /\ subDTMValley' = q.subDTMValley
                /\ subDTMFinger' = q.subDTMFinger
                /\ motorEnabled' = TRUE
                /\ isCutFirst' = cutFirst
                /\ distanceRemainingToCut' = r.cut
                /\ distanceRemainingToMove' = r.move
                /\ moveCount' = 0
                /\ lastMove' = NoMove
                /\ travel' = NoTravel
                /\ dmvCount' = 1
                /\ lastDMV' = [valley |-> valleySize, finger |-> fingerSize,
                               kerf |-> kerf, slop |-> slop]
  /\ UNCHANGED <<variant, isUniformCut, parameters>>
  /\ eepromAccess' = "None"
  /\ UNCHANGED configSide
  /\ UNCHANGED stepping

\* A faulty showCutMenu whose back press drives the carriage back by the
\* distance that remained to move before it leaves the session.
showCutMenu_backMoves ==
  /\ variant = "Customizable"
  /\ state = CUT_MENU
  /\ \E b \in {"None", "Right", "Left"} :
       /\ button' = b
       /\ IF b = "None"
            THEN /\ refreshDisplay
                 /\ refreshDisplay' = FALSE
                 /\ UNCHANGED <<state, programmaticIndex, quadruple,
                                currentSizes, remaining, moveLog, dmvLog>>
          ELSE IF b = "Left"
            THEN /\ state' = MAIN_MENU
                 /\ refreshDisplay' = TRUE
                 /\ travel' = Travelled(distanceRemainingToMove, FALSE, FALSE)
                 /\ moveCount' = Bump(moveCount)
                 /\ lastMove' = moveStepper(distanceRemainingToMove, FALSE)
                 /\ UNCHANGED <<programmaticIndex, quadruple, currentSizes,
                                remaining, dmvLog>>
          ELSE IF distanceRemainingToCut = 0
            THEN
              LET p == nextProgrammaticPair(programmaticSlots,
                                            programmaticIndex)
                  q == determineMovementValues(p.valleySize, p.fingerSize,
                                               kerf, slop)
              IN  /\ refreshDisplay' = TRUE
                  /\ travel' = Travelled(distanceRemainingToMove, TRUE, TRUE)
                  /\ moveCount' = Bump(moveCount)
                  /\ lastMove' = moveStepper(distanceRemainingToMove, TRUE)
                  /\ IF isUniformCut
                       THEN /\ UNCHANGED <<programmaticIndex, quadruple,
                                           currentSizes, dmvLog>>
                            /\ distanceRemainingToCut' = subDTMValley
                            /\ distanceRemainingToMove' = subDTMFinger
                       ELSE /\ programmaticIndex' = p.index
                            /\ currentValleySize' = p.valleySize
                            /\ currentFingerSize' = p.fingerSize
                            /\ initialDTMValley' = q.initialDTMValley
                            /\ initialDTMFinger' = q.initialDTMFinger
                            /\ subDTMValley' = q.subDTMValley
                            /\ subDTMFinger' = q.subDTMFinger
                            /\ dmvCount' = Bump(dmvCount)
                            /\ lastDMV' = [valley |-> p.valleySize,
                                           finger |-> p.fingerSize,
                                           kerf |-> kerf, slop |-> slop]
                            /\ distanceRemainingToCut' = q.subDTMValley
                            /\ distanceRemainingToMove' = q.subDTMFinger
                  /\ UNCHANGED state
            ELSE
              LET m == d(distanceRemainingToCut, maxAdvance)
              IN  /\ refreshDisplay' = TRUE
                  /\ distanceRemainingToCut' = U16(distanceRemainingToCut
                                                   + Neg16(m))
                  /\ travel' = Travelled(m, TRUE, FALSE)
                  /\ moveCount' = Bump(moveCount)
                  /\ lastMove' = moveStepper(m, TRUE)
                  /\ UNCHANGED <<state, programmaticIndex, quadruple,
                                 currentSizes, distanceRemainingToMove,
                                 dmvLog>>
  /\ UNCHANGED <<variant, isUniformCut, isCutFirst, parameters, motorEnabled>>
  /\ eepromAccess' = "None"
  /\ UNCHANGED configSide
  /\ UNCHANGED stepping

\* A faulty showCutMenu that keeps the clamped depth of the pass it issues
\* in maxAdvance.
showCutMenu_storesPass ==
  /\ variant = "Customizable"
  /\ state = CUT_MENU
  /\ \E b \in {"None", "Right", "Left"} :
       /\ button' = b
       /\ IF b = "None"
            THEN /\ refreshDisplay
                 /\ refreshDisplay' = FALSE
                 /\ UNCHANGED <<state, programmaticIndex, quadruple,
                                currentSizes, remaining, moveLog, dmvLog>>
          ELSE IF b = "Left"
            THEN /\ state' = MAIN_MENU
                 /\ refreshDisplay' = TRUE
                 /\ UNCHANGED <<programmaticIndex, quadruple, currentSizes,
                                remaining, moveLog, dmvLog>>
          ELSE IF distanceRemainingToCut = 0
            THEN
              LET p == nextProgrammaticPair(programmaticSlots,
                                            programmaticIndex)
                  q == determineMovementValues(p.valleySize, p.fingerSize,
                                               kerf, slop)
              IN  /\ refreshDisplay' = TRUE
                  /\ travel' = Travelled(distanceRemainingToMove, TRUE, TRUE)
                  /\ moveCount' = Bump(moveCount)
                  /\ lastMove' = moveStepper(distanceRemainingToMove, TRUE)
                  /\ IF isUniformCut
                       THEN /\ UNCHANGED <<programmaticIndex, quadruple,
                                           currentSizes, dmvLog>>
                            /\ distanceRemainingToCut' = subDTMValley
                            /\ distanceRemainingToMove' = subDTMFinger
                       ELSE /\ programmaticIndex' = p.index
                            /\ currentValleySize' = p.valleySize
                            /\ currentFingerSize' = p.fingerSize
                            /\ initialDTMValley' = q.initialDTMValley
                            /\ initialDTMFinger' = q.initialDTMFinger
                            /\ subDTMValley' = q.subDTMValley
                            /\ subDTMFinger' = q.subDTMFinger
                            /\ dmvCount' = Bump(dmvCount)
                            /\ lastDMV' = [valley |-> p.valleySize,
                                           finger |-> p.fingerSize,
                                           kerf |-> kerf, slop |-> slop]
                            /\ distanceRemainingToCut' = q.subDTMValley
                            /\ distanceRemainingToMove' = q.subDTMFinger
                  /\ UNCHANGED state
            ELSE
              LET m == d(distanceRemainingToCut, maxAdvance)
              IN  /\ refreshDisplay' = TRUE
                  /\ distanceRemainingToCut' = U16(distanceRemainingToCut
                                                   + Neg16(m))
                  /\ travel' = Travelled(m, TRUE, FALSE)
                  /\ moveCount' = Bump(moveCount)
                  /\ lastMove' = moveStepper(m, TRUE)
                  /\ UNCHANGED <<state, programmaticIndex, quadruple,
                                 currentSizes, distanceRemainingToMove,
                                 dmvLog>>
  /\ maxAdvance' = IF button' = "Right" /\ distanceRemainingToCut # 0
                     THEN d(distanceRemainingToCut, maxAdvance)
                     ELSE maxAdvance
  /\ UNCHANGED <<variant, isUniformCut, isCutFirst, kerf, slop, uniformSlot,
                 programmaticSlots, motorEnabled>>
  /\ eepromAccess' = "None"
  /\ UNCHANGED configSide
  /\ UNCHANGED stepping

\* A faulty showCutMenu that honours the uniform flag in inverse sessions
\* only: a positive uniform session steps through the pattern.
showCutMenu_uniformOnlyInverse ==
  /\ variant = "Customizable"
  /\ state = CUT_MENU
  /\ \E b \in {"None", "Right", "Left"} :
       /\ button' = b
       /\ IF b = "None"
            THEN /\ refreshDisplay
                 /\ refreshDisplay' = FALSE
                 /\ UNCHANGED <<state, programmaticIndex, quadruple,
                                currentSizes, remaining, moveLog, dmvLog>>
          ELSE IF b = "Left"
            THEN /\ state' = MAIN_MENU
                 /\ refreshDisplay' = TRUE
                 /\ UNCHANGED <<programmaticIndex, quadruple, currentSizes,
                                remaining, moveLog, dmvLog>>
          ELSE IF distanceRemainingToCut = 0
            THEN
              LET p == nextProgrammaticPair(programmaticSlots,
                                            programmaticIndex)
                  q == determineMovementValues(p.valleySize, p.fingerSize,
                                               kerf, slop)
              IN  /\ refreshDisplay' = TRUE
                  /\ travel' = Travelled(distanceRemainingToMove, TRUE, TRUE)
                  /\ moveCount' = Bump(moveCount)
                  /\ lastMove' = moveStepper(distanceRemainingToMove, TRUE)
                  /\ IF isUniformCut /\ ~isCutFirst
                       THEN /\ UNCHANGED <<programmaticIndex, quadruple,
                                           currentSizes, dmvLog>>
                            /\ distanceRemainingToCut' = subDTMValley
                            /\ distanceRemainingToMove' = subDTMFinger
                       ELSE /\ programmaticIndex' = p.index
                            /\ currentValleySize' = p.valleySize
                            /\ currentFingerSize' = p.fingerSize
                            /\ initialDTMValley' = q.initialDTMValley
                            /\ initialDTMFinger' = q.initialDTMFinger
                            /\ subDTMValley' = q.subDTMValley
                            /\ subDTMFinger' = q.subDTMFinger
                            /\ dmvCount' = Bump(dmvCount)
                            /\ lastDMV' = [valley |-> p.valleySize,
                                           finger |-> p.fingerSize,
                                           kerf |-> kerf, slop |-> slop]
                            /\ distanceRemainingToCut' = q.subDTMValley
                            /\ distanceRemainingToMove' = q.subDTMFinger
                  /\ UNCHANGED state
            ELSE
              LET m == d(distanceRemainingToCut, maxAdvance)
              IN  /\ refreshDisplay' = TRUE
                  /\ distanceRemainingToCut' = U16(distanceRemainingToCut
                                                   + Neg16(m))
                  /\ travel' = Travelled(m, TRUE, FALSE)
                  /\ moveCount' = Bump(moveCount)
                  /\ lastMove' = moveStepper(m, TRUE)
                  /\ UNCHANGED <<state, programmaticIndex, quadruple,
                                 currentSizes, distanceRemainingToMove,
                                 dmvLog>>
  /\ UNCHANGED <<variant, isUniformCut, isCutFirst, parameters, motorEnabled>>
  /\ eepromAccess' = "None"
  /\ UNCHANGED configSide
  /\ UNCHANGED stepping

\* A faulty showCutMenu that loads the remaining cut of a programmatic
\* session before it recomputes the quadruple for the next pair.
showCutMenu_loadsBeforeRecompute ==
  /\ variant = "Customizable"
  /\ state = CUT_MENU
  /\ \E b \in {"None", "Right", "Left"} :
       /\ button' = b
       /\ IF b = "None"
            THEN /\ refreshDisplay
                 /\ refreshDisplay' = FALSE
                 /\ UNCHANGED <<state, programmaticIndex, quadruple,
                                currentSizes, remaining, moveLog, dmvLog>>
          ELSE IF b = "Left"
            THEN /\ state' = MAIN_MENU
                 /\ refreshDisplay' = TRUE
                 /\ UNCHANGED <<programmaticIndex, quadruple, currentSizes,
                                remaining, moveLog, dmvLog>>
          ELSE IF distanceRemainingToCut = 0
            THEN
              LET p == nextProgrammaticPair(programmaticSlots,
                                            programmaticIndex)
                  q == determineMovementValues(p.valleySize, p.fingerSize,
                                               kerf, slop)
              IN  /\ refreshDisplay' = TRUE
                  /\ travel' = Travelled(distanceRemainingToMove, TRUE, TRUE)
                  /\ moveCount' = Bump(moveCount)
                  /\ lastMove' = moveStepper(distanceRemainingToMove, TRUE)
                  /\ IF isUniformCut
                       THEN /\ UNCHANGED <<programmaticIndex, quadruple,
                                           currentSizes, dmvLog>>
                            /\ distanceRemainingToCut' = subDTMValley
                            /\ distanceRemainingToMove' = subDTMFinger
                       ELSE /\ programmaticIndex' = p.index
                            /\ currentValleySize' = p.valleySize
                            /\ currentFingerSize' = p.fingerSize
                            /\ initialDTMValley' = q.initialDTMValley
                            /\ initialDTMFinger' = q.initialDTMFinger
                            /\ subDTMValley' = q.subDTMValley
                            /\ subDTMFinger' = q.subDTMFinger
                            /\ dmvCount' = Bump(dmvCount)
                            /\ lastDMV' = [valley |-> p.valleySize,
                                           finger |-> p.fingerSize,
                                           kerf |-> kerf, slop |-> slop]
                            /\ distanceRemainingToCut' = subDTMValley
                            /\ distanceRemainingToMove' = q.subDTMFinger
                  /\ UNCHANGED state
            ELSE
              LET m == d(distanceRemainingToCut, maxAdvance)
              IN  /\ refreshDisplay' = TRUE
                  /\ distanceRemainingToCut' = U16(distanceRemainingToCut
                                                   + Neg16(m))
                  /\ travel' = Travelled(m, TRUE, FALSE)
                  /\ moveCount' = Bump(moveCount)
                  /\ lastMove' = moveStepper(m, TRUE)
                  /\ UNCHANGED <<state, programmaticIndex, quadruple,
                                 currentSizes, distanceRemainingToMove,
                                 dmvLog>>
  /\ UNCHANGED <<variant, isUniformCut, isCutFirst, parameters, motorEnabled>>
  /\ eepromAccess' = "None"
  /\ UNCHANGED configSide
  /\ UNCHANGED stepping

\* showCutMenu(): Right is the advance press, Left the back press.  With
\* nothing left to cut the advance press relocates by the whole remaining
\* move and loads the next pair; otherwise it makes one cut pass of d().
showCutMenu ==
  /\ variant = "Customizable"
  /\ state = CUT_MENU
  /\ \E b \in {"None", "Right", "Left"} :
       /\ button' = b
       /\ IF b = "None"
            THEN /\ refreshDisplay
                 /\ refreshDisplay' = FALSE
                 /\ UNCHANGED <<state, programmaticIndex, quadruple,
                                currentSizes, remaining, moveLog, dmvLog>>
          ELSE IF b = "Left"
            THEN /\ state' = MAIN_MENU
                 /\ refreshDisplay' = TRUE
                 /\ UNCHANGED <<programmaticIndex, quadruple, currentSizes,
                                remaining, moveLog, dmvLog>>
          ELSE IF distanceRemainingToCut = 0
            THEN
              LET p == nextProgrammaticPair(programmaticSlots,
                                            programmaticIndex)
                  q == determineMovementValues(p.valleySize, p.fingerSize,
                                               kerf, slop)
              IN  /\ refreshDisplay' = TRUE
                  /\ travel' = Travelled(distanceRemainingToMove, TRUE, TRUE)
                  /\ moveCount' = Bump(moveCount)
                  /\ lastMove' = moveStepper(distanceRemainingToMove, TRUE)
                  /\ IF isUniformCut
                       THEN /\ UNCHANGED <<programmaticIndex, quadruple,
                                           currentSizes, dmvLog>>
                            /\ distanceRemainingToCut' = subDTMValley
                            /\ distanceRemainingToMove' = subDTMFinger
                       ELSE /\ programmaticIndex' = p.index
                            /\ currentValleySize' = p.valleySize
                            /\ currentFingerSize' = p.fingerSize
                            /\ initialDTMValley' = q.initialDTMValley
                            /\ initialDTMFinger' = q.initialDTMFinger
                            /\ subDTMValley' = q.subDTMValley
                            /\ subDTMFinger' = q.subDTMFinger
                            /\ dmvCount' = Bump(dmvCount)
                            /\ lastDMV' = [valley |-> p.valleySize,
                                           finger |-> p.fingerSize,
                                           kerf |-> kerf, slop |-> slop]
                            /\ distanceRemainingToCut' = q.subDTMValley
                            /\ distanceRemainingToMove' = q.subDTMFinger
                  /\ UNCHANGED state
            ELSE
              LET m == d(distanceRemainingToCut, maxAdvance)
              IN  /\ refreshDisplay' = TRUE
                  /\ distanceRemainingToCut' = U16(distanceRemainingToCut
                                                   + Neg16(m))
                  /\ travel' = Travelled(m, TRUE, FALSE)
                  /\ moveCount' = Bump(moveCount)
                  /\ lastMove' = moveStepper(m, TRUE)
                  /\ UNCHANGED <<state, programmaticIndex, quadruple,
                                 currentSizes, distanceRemainingToMove,
                                 dmvLog>>
  /\ UNCHANGED <<variant, isUniformCut, isCutFirst, parameters, motorEnabled>>
  /\ eepromAccess' = "None"
  /\ UNCHANGED configSide
  /\ UNCHANGED stepping

\* ------------------------------------------------------------------------
\* Simple variant: the menu handlers
\* ------------------------------------------------------------------------

\* showMainMenu(): Down starts a positive session, Right an inverse one,
\* from the quadruple stored by the last determineMovementValues(slot).
\* (Left, which opens the config menu, is Simple_showMainMenu_Config.)
Simple_showMainMenu ==
  /\ variant = "Simple"
  /\ state = MAIN_MENU
  /\ \E b \in {"None", "Right", "Down"} :
       /\ button' = b
       /\ IF b = "None"
            THEN /\ refreshDisplay
                 /\ refreshDisplay' = FALSE
                 /\ motorEnabled' = FALSE
                 /\ UNCHANGED <<state, isCutFirst, remaining, moveLog>>
            ELSE
              LET r == setupForCut(b = "Down",
                         [initialDTMValley |-> initialDTMValley,
                          initialDTMFinger |-> initialDTMFinger,
                          subDTMValley |-> subDTMValley,
                          subDTMFinger |-> subDTMFinger])
              IN  /\ isCutFirst' = (b = "Down")
                  /\ motorEnabled' = TRUE
                  /\ distanceRemainingToCut' = r.cut
                  /\ distanceRemainingToMove' = r.move
                  /\ state' = CUT_MENU
                  /\ refreshDisplay' = TRUE
                  /\ moveCount' = 0
                  /\ lastMove' = NoMove
                  /\ travel' = NoTravel
  /\ UNCHANGED <<variant, isUniformCut, parameters, programmaticIndex,
                 quadruple, currentSizes, dmvLog>>
  /\ eepromAccess' = "None"
  /\ UNCHANGED configSide
  /\ UNCHANGED stepping

\* showCutMenu(): as in the Customizable variant without the pattern; the
\* result of moveStepper is not looked at.
Simple_showCutMenu ==
  /\ variant = "Simple"
  /\ state = CUT_MENU
  /\ \E b \in {"None", "Right", "Left"} :
       /\ button' = b
       /\ IF b = "None"
            THEN /\ refreshDisplay
                 /\ refreshDisplay' = FALSE
                 /\ UNCHANGED <<state, remaining, moveLog>>
          ELSE IF b = "Left"
            THEN /\ state' = MAIN_MENU
                 /\ refreshDisplay' = TRUE
                 /\ UNCHANGED <<remaining, moveLog>>
          ELSE IF distanceRemainingToCut = 0
            THEN
              \E trip \in SwitchTrips(distanceRemainingToMove * stepsPerThou) :
                /\ refreshDisplay' = TRUE
                /\ travel' = Travelled(distanceRemainingToMove, TRUE, TRUE)
                /\ moveCount' = Bump(moveCount)
                /\ lastMove' = Simple_moveStepper(distanceRemainingToMove,
                                                  TRUE, trip)
                /\ distanceRemainingToCut' = subDTMValley
                /\ distanceRemainingToMove' = subDTMFinger
                /\ UNCHANGED state
            ELSE
              LET m == d(distanceRemainingToCut, maxAdvance)
              IN  \E trip \in SwitchTrips(m * stepsPerThou) :
                    /\ refreshDisplay' = TRUE
                    /\ distanceRemainingToCut' =
                         U16(distanceRemainingToCut + Neg16(m))
                    /\ travel' = Travelled(m, TRUE, FALSE)
                    /\ moveCount' = Bump(moveCount)
                    /\ lastMove' = Simple_moveStepper(m, TRUE, trip)
                    /\ UNCHANGED <<state, distanceRemainingToMove>>
  /\ UNCHANGED <<variant, isUniformCut, isCutFirst, parameters,
                 programmaticIndex, quadruple, currentSizes, motorEnabled,
                 dmvLog>>
  /\ eepromAccess' = "None"
  /\ UNCHANGED configSide
  /\ UNCHANGED stepping

\* ------------------------------------------------------------------------
\* Legacy variant (src/unnamed/part_000): setup and the menu handlers
\* ------------------------------------------------------------------------

\* setup() has returned: it ends with determineMovementValues() on either
\* branch.  The legacy variant has no maxAdvance and no pattern.
LegacyInit ==
  /\ pc = "loop"
  /\ held = {}
  /\ sensed = {}
  /\ variant = "Legacy"
  /\ \E c \in Configurations :
       /\ uniformSlot = c[1]
       /\ kerf = c[2]
       /\ slop = c[3]
  /\ maxAdvance = 0
  /\ programmaticSlots = NoPattern
  /\ state = MAIN_MENU
  /\ refreshDisplay = TRUE
  /\ isUniformCut = TRUE
  /\ isCutFirst = TRUE
  /\ programmaticIndex = 0
  /\ currentValleySize = 0
  /\ currentFingerSize = 0
  /\ distanceRemainingToCut = 0
  /\ distanceRemainingToMove = 0
  /\ motorEnabled = TRUE
  /\ button = "None"
  /\ moveCount = 0
  /\ lastMove = NoMove
  /\ travel = NoTravel
  /\ configOption = 0
  /\ lengthOfWood = U32Bytes(0)
  /\ numberOfSlots = 0
  /\ configSlotCount = 0
  /\ configSlotDistance = 0
  /\ eeprom = Legacy_writeSettings(BlankEEPROM, settings)
  /\ eepromAccess = "None"
  /\ edits = 0
  /\ LET q == Legacy_determineMovementValues(uniformSlot, kerf, slop)
     IN  /\ initialDTMValley = q.initialDTMValley
         /\ initialDTMFinger = q.initialDTMFinger
         /\ subDTMValley = q.subDTMValley
         /\ subDTMFinger = q.subDTMFinger
  /\ dmvCount = 1
  /\ lastDMV = [valley |-> uniformSlot, finger |-> uniformSlot,
                kerf |-> kerf, slop |-> slop]

\* showMainMenu(): Down starts a positive session, Right an inverse one.
\* (Left, which opens the config menu, is not taken.)
Legacy_showMainMenu ==
  /\ variant = "Legacy"
  /\ state = MAIN_MENU
  /\ \E b \in {"None", "Right", "Down"} :
       /\ button' = b
       /\ IF b = "None"
            THEN /\ refreshDisplay
                 /\ refreshDisplay' = FALSE
                 /\ motorEnabled' = FALSE
                 /\ UNCHANGED <<state, isCutFirst, remaining, moveLog>>
            ELSE
              LET r == setupForCut(b = "Down",
                         [initialDTMValley |-> initialDTMValley,
                          initialDTMFinger |-> initialDTMFinger,
                          subDTMValley |-> subDTMValley,
                          subDTMFinger |-> subDTMFinger])
              IN  /\ isCutFirst' = (b = "Down")
                  /\ motorEnabled' = TRUE
                  /\ distanceRemainingToCut' = r.cut
                  /\ distanceRemainingToMove' = r.move
                  /\ state' = CUT_MENU
                  /\ refreshDisplay' = TRUE
                  /\ moveCount' = 0
                  /\ lastMove' = NoMove
                  /\ travel' = NoTravel
  /\ UNCHANGED <<variant, isUniformCut, parameters, programmaticIndex,
                 quadruple, currentSizes, dmvLog>>
  /\ eepromAccess' = "None"
  /\ UNCHANGED configSide
  /\ UNCHANGED stepping

\* d() of the legacy variant: a cut pass is at most one kerf long.
Legacy_d(cut, k) == IF cut > k THEN k ELSE cut

\* showCutMenu(): as in the Simple variant, with the legacy d() and
\* moveStepper; the result of moveStepper is not looked at.
Legacy_showCutMenu ==
  /\ variant = "Legacy"
  /\ state = CUT_MENU
  /\ \E b \in {"None", "Right", "Left"} :
       /\ button' = b
       /\ IF b = "None"
            THEN /\ refreshDisplay
                 /\ refreshDisplay' = FALSE
                 /\ UNCHANGED <<state, remaining, moveLog>>
          ELSE IF b = "Left"
            THEN /\ state' = MAIN_MENU
                 /\ refreshDisplay' = TRUE
                 /\ UNCHANGED <<remaining, moveLog>>
          ELSE IF distanceRemainingToCut = 0
            THEN
              \E n \in Legacy_numberOfSteps(distanceRemainingToMove) :
                \E trip \in SwitchTrips(n) :
                  /\ refreshDisplay' = TRUE
                  /\ travel' = Travelled(distanceRemainingToMove, TRUE, TRUE)
                  /\ moveCount' = Bump(moveCount)
                  /\ lastMove' = Legacy_moveStepper(distanceRemainingToMove,
                                                    TRUE, n, trip)
                  /\ distanceRemainingToCut' = subDTMValley
                  /\ distanceRemainingToMove' = subDTMFinger
                  /\ UNCHANGED state
            ELSE
              LET m == Legacy_d(distanceRemainingToCut, kerf)
              IN  \E n \in Legacy_numberOfSteps(m) :
                    \E trip \in SwitchTrips(n) :
                      /\ refreshDisplay' = TRUE
                      /\ distanceRemainingToCut' =
                           U16(distanceRemainingToCut + Neg16(m))
                      /\ travel' = Travelled(m, TRUE, FALSE)
                      /\ moveCount' = Bump(moveCount)
                      /\ lastMove' = Legacy_moveStepper(m, TRUE, n, trip)
                      /\ UNCHANGED <<state, distanceRemainingToMove>>
  /\ UNCHANGED <<variant, isUniformCut, isCutFirst, parameters,
                 programmaticIndex, quadruple, currentSizes, motorEnabled,
                 dmvLog>>
  /\ eepromAccess' = "None"
  /\ UNCHANGED configSide
  /\ UNCHANGED stepping

Next ==
  \/ showMainMenu
  \/ showCutTypeMenu
  \/ showCutMenu
  \/ Simple_showMainMenu
  \/ Simple_showCutMenu

Spec == Init /\ [][Next]_vars

\* The three variants together.
LegacyNext ==
  \/ Next
  \/ Legacy_showMainMenu
  \/ Legacy_showCutMenu

LegacySpec == (Init \/ LegacyInit) /\ [][LegacyNext]_vars

\* ------------------------------------------------------------------------
\* The whole firmware: setup() and the configuration menus
\* ------------------------------------------------------------------------

\* setup() has returned.  With no marker in the EEPROM, or with Up held, it
\* calls writeSettings() on the initializers and then readSettings();
\* otherwise readSettings() alone.  In the Simple variant writeSettings()
\* ends with determineMovementValues(slot), and the second branch calls it
\* after readSettings().
FirmwareInit ==
  /\ pc = "loop"
  /\ held = {}
  /\ sensed = {}
  /\ variant \in Variants
  /\ \E e0 \in InitialEEPROMs(variant), up \in BOOLEAN :
       LET first == e0[0] # SettingsMarker \/ up
           custom == variant = "Customizable"
           e1 == IF ~first THEN e0
                 ELSE IF custom THEN writeSettings(e0, Defaults)
                 ELSE Simple_writeSettings(e0, Simple_Defaults)
           c == IF custom THEN readSettings(e1)
                ELSE Simple_readSettings(e1, Simple_Defaults)
           dmv == IF first
                    THEN [valley |-> Simple_Defaults.uniformSlot,
                          finger |-> Simple_Defaults.uniformSlot,
                          kerf |-> Simple_Defaults.kerf,
                          slop |-> Simple_Defaults.slop]
                    ELSE [valley |-> c.uniformSlot, finger |-> c.uniformSlot,
                          kerf |-> c.kerf, slop |-> c.slop]
           q == Simple_determineMovementValues(dmv.valley, dmv.kerf,
                                               dmv.slop)
       IN  /\ eeprom = e1
           /\ eepromAccess = IF first THEN "WriteRead" ELSE "Read"
           /\ kerf = c.kerf
           /\ slop = c.slop
           /\ maxAdvance = c.maxAdvance
           /\ uniformSlot = c.uniformSlot
           /\ lengthOfWood = c.lengthOfWood
           /\ numberOfSlots = c.numberOfSlots
           /\ programmaticSlots = c.programmaticSlots
           /\ initialDTMValley = IF custom THEN 0 ELSE q.initialDTMValley
           /\ initialDTMFinger = IF custom THEN 0 ELSE q.initialDTMFinger
           /\ subDTMValley = IF custom THEN 0 ELSE q.subDTMValley
           /\ subDTMFinger = IF custom THEN 0 ELSE q.subDTMFinger
           /\ dmvCount = IF custom THEN 0 ELSE 1
           /\ lastDMV = IF custom THEN NoDMV ELSE dmv
  /\ state = MAIN_MENU
  /\ refreshDisplay = TRUE
  /\ isUniformCut = TRUE
  /\ isCutFirst = TRUE
  /\ programmaticIndex = 0
  /\ currentValleySize = 0
  /\ currentFingerSize = 0
  /\ distanceRemainingToCut = 0
  /\ distanceRemainingToMove = 0
  /\ motorEnabled = TRUE
  /\ button = "None"
  /\ moveCount = 0
  /\ lastMove = NoMove
  /\ travel = NoTravel
  /\ configOption = 0
  /\ configSlotCount = 0
  /\ configSlotDistance = 0
  /\ edits = 0

\* showMainMenu(), the Left press: into the config menu.
showMainMenu_Config ==
  /\ variant = "Customizable"
  /\ state = MAIN_MENU
  /\ button' = "Left"
  /\ motorEnabled' = IF refreshDisplay THEN FALSE ELSE motorEnabled
  /\ state' = CONFIG_MENU
  /\ refreshDisplay' = TRUE
  /\ eepromAccess' = "None"
  /\ UNCHANGED stepping
  /\ UNCHANGED <<variant, parameters, session, moveLog, configSide>>

\* A faulty showConfigMenu that opens the slot-programming menu without
\* switching the motor on.
showConfigMenu_noMotorOn ==
  /\ variant = "Customizable"
  /\ state = CONFIG_MENU
  /\ \E b \in {"None", "Left", "Down", "Up", "Right"} :
       /\ button' = b
       /\ IF b = "None"
            THEN /\ refreshDisplay
                 /\ refreshDisplay' = FALSE
                 /\ UNCHANGED <<state, configOption, motorEnabled>>
          ELSE IF b = "Left"
            THEN /\ state' = CONFIG_CHANGE_VALUE_MENU
                 /\ motorEnabled' = motorEnabled
                 /\ refreshDisplay' = TRUE
                 /\ UNCHANGED configOption
          ELSE IF b = "Down"
            THEN /\ configOption' =
                      IF configOption + 1 = MAX_CONFIG_OPTIONS THEN 0
                      ELSE configOption + 1
                 /\ refreshDisplay' = TRUE
                 /\ UNCHANGED <<state, motorEnabled>>
          ELSE IF b = "Up"
            THEN /\ configOption' =
                      IF configOption - 1 < 0 THEN MAX_CONFIG_OPTIONS - 1
                      ELSE configOption - 1
                 /\ refreshDisplay' = TRUE
                 /\ UNCHANGED <<state, motorEnabled>>
          ELSE /\ state' = MAIN_MENU
               /\ refreshDisplay' = TRUE
               /\ UNCHANGED <<configOption, motorEnabled>>
  /\ eepromAccess' = "None"
  /\ UNCHANGED stepping
  /\ UNCHANGED <<variant, parameters, session, moveLog, lengthOfWood,
                 numberOfSlots, configSlotCount, configSlotDistance, eeprom,
                 edits>>

\* showConfigMenu(): Down and Up step through the options, Left opens the
\* value-change menu (switching the motor on for the pattern option), Right
\* goes back to the main menu.
showConfigMenu ==
  /\ variant = "Customizable"
  /\ state = CONFIG_MENU
  /\ \E b \in {"None", "Left", "Down", "Up", "Right"} :
       /\ button' = b
       /\ IF b = "None"
            THEN /\ refreshDisplay
                 /\ refreshDisplay' = FALSE
                 /\ UNCHANGED <<state, configOption, motorEnabled>>
          ELSE IF b = "Left"
            THEN /\ state' = CONFIG_CHANGE_VALUE_MENU
                 /\ motorEnabled' =
                      IF configOption = 6 THEN TRUE ELSE motorEnabled
                 /\ refreshDisplay' = TRUE
                 /\ UNCHANGED configOption
          ELSE IF b = "Down"
            THEN /\ configOption' =
                      IF configOption + 1 = MAX_CONFIG_OPTIONS THEN 0
                      ELSE configOption + 1
                 /\ refreshDisplay' = TRUE
                 /\ UNCHANGED <<state, motorEnabled>>
          ELSE IF b = "Up"
            THEN /\ configOption' =
                      IF configOption - 1 < 0 THEN MAX_CONFIG_OPTIONS - 1
                      ELSE configOption - 1
                 /\ refreshDisplay' = TRUE
                 /\ UNCHANGED <<state, motorEnabled>>
          ELSE /\ state' = MAIN_MENU
               /\ refreshDisplay' = TRUE
               /\ UNCHANGED <<configOption, motorEnabled>>
  /\ eepromAccess' = "None"
  /\ UNCHANGED stepping
  /\ UNCHANGED <<variant, parameters, session, moveLog, lengthOfWood,
                 numberOfSlots, configSlotCount, configSlotDistance, eeprom,
                 edits>>


\* A faulty handleConfigProgrammaticSlots whose Done press stores the
\* distance jogged so far as one more entry.
handleConfigProgrammaticSlots_storesJog(b) ==
  IF b = "Up"
    THEN
      LET written == IF configSlotCount < MAX_PROGRAMMATIC_SLOTS
                       THEN [programmaticSlots EXCEPT
                               ![configSlotCount] = configSlotDistance]
                       ELSE programmaticSlots
          count == Byte(configSlotCount + 1)
      IN  /\ edits' = edits + 1
          /\ programmaticSlots' = written
          /\ configSlotCount' = count
          /\ configSlotDistance' \in
               IF count < MAX_PROGRAMMATIC_SLOTS THEN {written[count]}
               ELSE {0, TwoTo16 - 1}
          /\ travel' = Travelled(configSlotDistance', TRUE, FALSE)
          /\ moveCount' = Bump(moveCount)
          /\ lastMove' = moveStepper(configSlotDistance', TRUE)
          /\ eepromAccess' = "None"
          /\ UNCHANGED <<state, motorEnabled, eeprom>>
  ELSE IF b = "Left"
    THEN
      LET distanceToMove == IF configSlotDistance <= 4
                              THEN Byte(configSlotDistance) ELSE 5
      IN  /\ edits' = edits + 1
          /\ configSlotDistance' =
               U16(configSlotDistance + Neg16(distanceToMove))
          /\ travel' = Travelled(distanceToMove, FALSE, FALSE)
          /\ moveCount' = Bump(moveCount)
          /\ lastMove' = moveStepper(distanceToMove, FALSE)
          /\ eepromAccess' = "None"
          /\ UNCHANGED <<state, motorEnabled, eeprom, programmaticSlots,
                         configSlotCount>>
  ELSE IF b = "Right"
    THEN
      LET distanceToMove ==
            IF configSlotDistance >= 1996
              THEN Byte(U16(2000 + Neg16(configSlotDistance))) ELSE 5
      IN  /\ edits' = edits + 1
          /\ configSlotDistance' = U16(configSlotDistance + distanceToMove)
          /\ travel' = Travelled(distanceToMove, TRUE, FALSE)
          /\ moveCount' = Bump(moveCount)
          /\ lastMove' = moveStepper(distanceToMove, TRUE)
          /\ eepromAccess' = "None"
          /\ UNCHANGED <<state, motorEnabled, eeprom, programmaticSlots,
                         configSlotCount>>
  ELSE
      LET zeroed == [i \in 0..(MAX_PROGRAMMATIC_SLOTS - 1) |->
                       IF i > configSlotCount THEN 0
                       ELSE IF i = configSlotCount THEN configSlotDistance
                       ELSE programmaticSlots[i]]
      IN  /\ programmaticSlots' = zeroed
          /\ motorEnabled' = FALSE
          /\ state' = CONFIG_MENU
          /\ eeprom' = writeSettings(eeprom,
                          [settings EXCEPT !.programmaticSlots = zeroed])
          /\ eepromAccess' = "Write"
          /\ UNCHANGED <<configSlotCount, configSlotDistance, moveLog,
                         edits>>

\* A faulty handleConfigProgrammaticSlots whose Right press jogs by 5
\* whatever the distance.
handleConfigProgrammaticSlots_jogsOn(b) ==
  IF b = "Up"
    THEN
      LET written == IF configSlotCount < MAX_PROGRAMMATIC_SLOTS
                       THEN [programmaticSlots EXCEPT
                               ![configSlotCount] = configSlotDistance]
                       ELSE programmaticSlots
          count == Byte(configSlotCount + 1)
      IN  /\ edits' = edits + 1
          /\ programmaticSlots' = written
          /\ configSlotCount' = count
          /\ configSlotDistance' \in
               IF count < MAX_PROGRAMMATIC_SLOTS THEN {written[count]}
               ELSE {0, TwoTo16 - 1}
          /\ travel' = Travelled(configSlotDistance', TRUE, FALSE)
          /\ moveCount' = Bump(moveCount)
          /\ lastMove' = moveStepper(configSlotDistance', TRUE)
          /\ eepromAccess' = "None"
          /\ UNCHANGED <<state, motorEnabled, eeprom>>
  ELSE IF b = "Left"
    THEN
      LET distanceToMove == IF configSlotDistance <= 4
                              THEN Byte(configSlotDistance) ELSE 5
      IN  /\ edits' = edits + 1
          /\ configSlotDistance' =
               U16(configSlotDistance + Neg16(distanceToMove))
          /\ travel' = Travelled(distanceToMove, FALSE, FALSE)
          /\ moveCount' = Bump(moveCount)
          /\ lastMove' = moveStepper(distanceToMove, FALSE)
          /\ eepromAccess' = "None"
          /\ UNCHANGED <<state, motorEnabled, eeprom, programmaticSlots,
                         configSlotCount>>
  ELSE IF b = "Right"
    THEN
      LET distanceToMove ==
            5
      IN  /\ edits' = edits + 1
          /\ configSlotDistance' = U16(configSlotDistance + distanceToMove)
          /\ travel' = Travelled(distanceToMove, TRUE, FALSE)
          /\ moveCount' = Bump(moveCount)
          /\ lastMove' = moveStepper(distanceToMove, TRUE)
          /\ eepromAccess' = "None"
          /\ UNCHANGED <<state, motorEnabled, eeprom, programmaticSlots,
                         configSlotCount>>
  ELSE
      LET zeroed == [i \in 0..(MAX_PROGRAMMATIC_SLOTS - 1) |->
                       IF i >= configSlotCount THEN 0
                       ELSE programmaticSlots[i]]
      IN  /\ programmaticSlots' = zeroed
          /\ motorEnabled' = FALSE
          /\ state' = CONFIG_MENU
          /\ eeprom' = writeSettings(eeprom,
                          [settings EXCEPT !.programmaticSlots = zeroed])
          /\ eepromAccess' = "Write"
          /\ UNCHANGED <<configSlotCount, configSlotDistance, moveLog,
                         edits>>

\* handleConfigProgrammaticSlots(), for the press b: Up (Set) stores the
\* jogged distance as the next pattern entry and moves by the entry that
\* follows it, Left and Right jog by at most 5, Down (Done) zeroes the
\* entries from configSlotCount on and saves.  configSlotCount is a uint8_t
\* and is never reset; past the end of the array the Set press reads and
\* writes outside programmaticSlots, which is undefined: the value read is
\* left open and the pattern is left as it is.  The Set and jog presses are
\* counted in edits; each specification bounds their number.
handleConfigProgrammaticSlots(b) ==
  IF b = "Up"
    THEN
      LET written == IF configSlotCount < MAX_PROGRAMMATIC_SLOTS
                       THEN [programmaticSlots EXCEPT
                               ![configSlotCount] = configSlotDistance]
                       ELSE programmaticSlots
          count == Byte(configSlotCount + 1)
      IN  /\ edits' = edits + 1
          /\ programmaticSlots' = written
          /\ configSlotCount' = count
          /\ configSlotDistance' \in
               IF count < MAX_PROGRAMMATIC_SLOTS THEN {written[count]}
               ELSE {0, TwoTo16 - 1}
          /\ travel' = Travelled(configSlotDistance', TRUE, FALSE)
          /\ moveCount' = Bump(moveCount)
          /\ lastMove' = moveStepper(configSlotDistance', TRUE)
          /\ eepromAccess' = "None"
          /\ UNCHANGED <<state, motorEnabled, eeprom>>
  ELSE IF b = "Left"
    THEN
      LET distanceToMove == IF configSlotDistance <= 4
                              THEN Byte(configSlotDistance) ELSE 5
      IN  /\ edits' = edits + 1
          /\ configSlotDistance' =
               U16(configSlotDistance + Neg16(distanceToMove))
          /\ travel' = Travelled(distanceToMove, FALSE, FALSE)
          /\ moveCount' = Bump(moveCount)
          /\ lastMove' = moveStepper(distanceToMove, FALSE)
          /\ eepromAccess' = "None"
          /\ UNCHANGED <<state, motorEnabled, eeprom, programmaticSlots,
                         configSlotCount>>
  ELSE IF b = "Right"
    THEN
      LET distanceToMove ==
            IF configSlotDistance >= 1996
              THEN Byte(U16(2000 + Neg16(configSlotDistance))) ELSE 5
      IN  /\ edits' = edits + 1
          /\ configSlotDistance' = U16(configSlotDistance + distanceToMove)
          /\ travel' = Travelled(distanceToMove, TRUE, FALSE)
          /\ moveCount' = Bump(moveCount)
          /\ lastMove' = moveStepper(distanceToMove, TRUE)
          /\ eepromAccess' = "None"
          /\ UNCHANGED <<state, motorEnabled, eeprom, programmaticSlots,
                         configSlotCount>>
  ELSE
      LET zeroed == [i \in 0..(MAX_PROGRAMMATIC_SLOTS - 1) |->
                       IF i >= configSlotCount THEN 0
                       ELSE programmaticSlots[i]]
      IN  /\ programmaticSlots' = zeroed
          /\ motorEnabled' = FALSE
          /\ state' = CONFIG_MENU
          /\ eeprom' = writeSettings(eeprom,
                          [settings EXCEPT !.programmaticSlots = zeroed])
          /\ eepromAccess' = "Write"
          /\ UNCHANGED <<configSlotCount, configSlotDistance, moveLog,
                         edits>>

\* A faulty showConfigChangeValueMenu whose Cancel saves like Back.
showConfigChangeValueMenu_cancelSaves ==
  /\ variant = "Customizable"
  /\ state = CONFIG_CHANGE_VALUE_MENU
  /\ \E b \in {"None", "Up", "Left", "Down", "Right"} :
       /\ button' = b
       /\ IF b = "None"
            THEN /\ refreshDisplay
                 /\ refreshDisplay' = FALSE
                 /\ eepromAccess' = "None"
                 /\ UNCHANGED <<state, settingsVars, motorEnabled, moveLog,
                                configSlotCount, configSlotDistance, eeprom,
                                edits>>
          ELSE IF configOption = 6
            THEN /\ refreshDisplay' = TRUE
                 /\ handleConfigProgrammaticSlots(b)
                 /\ UNCHANGED <<kerf, slop, maxAdvance, uniformSlot,
                                lengthOfWood, numberOfSlots>>
          ELSE IF b \in {"Up", "Down"}
            THEN /\ edits < MaxEdits
                 /\ edits' = edits + 1
                 /\ \E c \in changeValue(settings, configOption, b = "Up") :
                      StoreSettings(c)
                 /\ refreshDisplay' = TRUE
                 /\ eepromAccess' = "None"
                 /\ UNCHANGED <<state, motorEnabled, moveLog,
                                configSlotCount, configSlotDistance, eeprom>>
          ELSE IF b = "Left"
            THEN /\ state' = CONFIG_MENU
                 /\ eeprom' = writeSettings(eeprom, settings)
                 /\ eepromAccess' = "Write"
                 /\ refreshDisplay' = TRUE
                 /\ UNCHANGED <<settingsVars, motorEnabled, moveLog,
                                configSlotCount, configSlotDistance, edits>>
          ELSE /\ state' = CONFIG_MENU
               /\ refreshDisplay' = TRUE
               /\ eeprom' = writeSettings(eeprom, settings)
               /\ eepromAccess' = "Write"
               /\ UNCHANGED <<settingsVars, motorEnabled, moveLog,
                              configSlotCount, configSlotDistance, edits>>
  /\ UNCHANGED stepping
  /\ UNCHANGED <<variant, session, configOption>>

\* showConfigChangeValueMenu(): for the pattern option the presses go to
\* handleConfigProgrammaticSlots(); for the others Up and Down change the
\* value in memory, Left (Back) saves with writeSettings() and Right
\* (Cancel) leaves the menu without saving.
showConfigChangeValueMenu ==
  /\ variant = "Customizable"
  /\ state = CONFIG_CHANGE_VALUE_MENU
  /\ \E b \in {"None", "Up", "Left", "Down", "Right"} :
       /\ button' = b
       /\ IF b = "None"
            THEN /\ refreshDisplay
                 /\ refreshDisplay' = FALSE
                 /\ eepromAccess' = "None"
                 /\ UNCHANGED <<state, settingsVars, motorEnabled, moveLog,
                                configSlotCount, configSlotDistance, eeprom,
                                edits>>
          ELSE IF configOption = 6
            THEN /\ refreshDisplay' = TRUE
                 /\ handleConfigProgrammaticSlots(b)
                 /\ UNCHANGED <<kerf, slop, maxAdvance, uniformSlot,
                                lengthOfWood, numberOfSlots>>
          ELSE IF b \in {"Up", "Down"}
            THEN /\ edits < MaxEdits
                 /\ edits' = edits + 1
                 /\ \E c \in changeValue(settings, configOption, b = "Up") :
                      StoreSettings(c)
                 /\ refreshDisplay' = TRUE
                 /\ eepromAccess' = "None"
                 /\ UNCHANGED <<state, motorEnabled, moveLog,
                                configSlotCount, configSlotDistance, eeprom>>
          ELSE IF b = "Left"
            THEN /\ state' = CONFIG_MENU
                 /\ eeprom' = writeSettings(eeprom, settings)
                 /\ eepromAccess' = "Write"
                 /\ refreshDisplay' = TRUE
                 /\ UNCHANGED <<settingsVars, motorEnabled, moveLog,
                                configSlotCount, configSlotDistance, edits>>
          ELSE /\ state' = CONFIG_MENU
               /\ refreshDisplay' = TRUE
               /\ eepromAccess' = "None"
               /\ UNCHANGED <<settingsVars, motorEnabled, moveLog,
                              configSlotCount, configSlotDistance, eeprom,
                              edits>>
  /\ UNCHANGED stepping
  /\ UNCHANGED <<variant, session, configOption>>

\* showMainMenu() of the Simple variant, the Left press: into the config
\* menu.
Simple_showMainMenu_Config ==
  /\ variant = "Simple"
  /\ state = MAIN_MENU
  /\ button' = "Left"
  /\ motorEnabled' = IF refreshDisplay THEN FALSE ELSE motorEnabled
  /\ state' = CONFIG_MENU
  /\ refreshDisplay' = TRUE
  /\ eepromAccess' = "None"
  /\ UNCHANGED stepping
  /\ UNCHANGED <<variant, parameters, session, moveLog, configSide>>

\* showConfigMenu() of the Simple variant.
Simple_showConfigMenu ==
  /\ variant = "Simple"
  /\ state = CONFIG_MENU
  /\ \E b \in {"None", "Left", "Down", "Up", "Right"} :
       /\ button' = b
       /\ IF b = "None"
            THEN /\ refreshDisplay
                 /\ refreshDisplay' = FALSE
                 /\ UNCHANGED <<state, configOption>>
          ELSE IF b = "Left"
            THEN /\ state' = CONFIG_CHANGE_VALUE_MENU
                 /\ refreshDisplay' = TRUE
                 /\ UNCHANGED configOption
          ELSE IF b = "Down"
            THEN /\ configOption' =
                      IF configOption + 1 = Simple_MAX_CONFIG_OPTIONS THEN 0
                      ELSE configOption + 1
                 /\ refreshDisplay' = TRUE
                 /\ UNCHANGED state
          ELSE IF b = "Up"
            THEN /\ configOption' =
                      IF configOption - 1 < 0
                        THEN Simple_MAX_CONFIG_OPTIONS - 1
                        ELSE configOption - 1
                 /\ refreshDisplay' = TRUE
                 /\ UNCHANGED state
          ELSE /\ state' = MAIN_MENU
               /\ refreshDisplay' = TRUE
               /\ UNCHANGED configOption
  /\ eepromAccess' = "None"
  /\ UNCHANGED stepping
  /\ UNCHANGED <<variant, parameters, session, motorEnabled, moveLog,
                 lengthOfWood, numberOfSlots, configSlotCount,
                 configSlotDistance, eeprom, edits>>

\* showConfigChangeMenu() of the Simple variant: Up and Down change the
\* value in memory as in the Customizable variant, Left (Back) calls
\* writeSettings(), which saves and ends with determineMovementValues(slot),
\* and Right (Cancel) leaves the menu without either.
Simple_showConfigChangeMenu ==
  /\ variant = "Simple"
  /\ state = CONFIG_CHANGE_VALUE_MENU
  /\ \E b \in {"None", "Up", "Left", "Down", "Right"} :
       /\ button' = b
       /\ IF b = "None"
            THEN /\ refreshDisplay
                 /\ refreshDisplay' = FALSE
                 /\ eepromAccess' = "None"
                 /\ UNCHANGED <<state, settingsVars, quadruple, dmvLog,
                                eeprom, edits>>
          ELSE IF b \in {"Up", "Down"}
            THEN /\ edits < MaxEdits
                 /\ edits' = edits + 1
                 /\ \E c \in changeValue(settings, configOption, b = "Up") :
                      StoreSettings(c)
                 /\ refreshDisplay' = TRUE
                 /\ eepromAccess' = "None"
                 /\ UNCHANGED <<state, quadruple, dmvLog, eeprom>>
          ELSE IF b = "Left"
            THEN
              LET q == Simple_determineMovementValues(uniformSlot, kerf,
                                                      slop)
              IN  /\ state' = CONFIG_MENU
                  /\ eeprom' = Simple_writeSettings(eeprom, settings)
                  /\ eepromAccess' = "Write"
                  /\ initialDTMValley' = q.initialDTMValley
                  /\ initialDTMFinger' = q.initialDTMFinger
                  /\ subDTMValley' = q.subDTMValley
                  /\ subDTMFinger' = q.subDTMFinger
                  /\ dmvCount' = Bump(dmvCount)
                  /\ lastDMV' = [valley |-> uniformSlot,
                                 finger |-> uniformSlot,
                                 kerf |-> kerf, slop |-> slop]
                  /\ refreshDisplay' = TRUE
                  /\ UNCHANGED <<settingsVars, edits>>
          ELSE /\ state' = CONFIG_MENU
               /\ refreshDisplay' = TRUE
               /\ eepromAccess' = "None"
               /\ UNCHANGED <<settingsVars, quadruple, dmvLog, eeprom,
                              edits>>
  /\ UNCHANGED stepping
  /\ UNCHANGED <<variant, isUniformCut, isCutFirst, programmaticIndex,
                 currentSizes, remaining, motorEnabled, moveLog,
                 configOption, configSlotCount, configSlotDistance>>

\* A handler has just taken the advance press in the cut menu.
AdvancePress == state = CUT_MENU /\ button' = "Right"

\* The back press of the cut menu.
BackPress == state = CUT_MENU /\ button' = "Left"

\* The main menu, the cut-type menu and the cut menu as above.  To keep the
\* runs with the configuration menus finite and small, a session handles at
\* most MaxMoves advance presses and is the last thing of the run: the back
\* press, which Spec covers from every session state, is not taken here.
SessionStep ==
  /\ Next
  /\ AdvancePress => moveCount < MaxMoves
  /\ ~BackPress

\* A Set press (Up) of the slot-programming menu.
SetPress ==
  /\ variant = "Customizable"
  /\ state = CONFIG_CHANGE_VALUE_MENU
  /\ configOption = 6
  /\ button' = "Up"

\* A jog press (Left or Right) of the slot-programming menu.
JogPress ==
  /\ variant = "Customizable"
  /\ state = CONFIG_CHANGE_VALUE_MENU
  /\ configOption = 6
  /\ button' \in {"Left", "Right"}

\* The value-change menu with at most MaxEdits presses in a run, those of
\* the slot-programming menu included.
ConfigStep ==
  /\ showConfigChangeValueMenu
  /\ (SetPress \/ JogPress) => edits < MaxEdits

FirmwareNext ==
  \/ SessionStep
  \/ showMainMenu_Config
  \/ showConfigMenu
  \/ ConfigStep
  \/ Simple_showMainMenu_Config
  \/ Simple_showConfigMenu
  \/ Simple_showConfigChangeMenu

FirmwareSpec == FirmwareInit /\ [][FirmwareNext]_vars

\* ------------------------------------------------------------------------
\* Programming the slot pattern
\* ------------------------------------------------------------------------

\* A pattern saved in an earlier run, with widths next to both ends of the
\* range 0..2000 of the jogged distance.
PatternJog ==
  [i \in 0..(MAX_PROGRAMMATIC_SLOTS - 1) |->
     IF i = 0 THEN 200 ELSE IF i = 1 THEN 1998 ELSE IF i = 2 THEN 3
     ELSE IF i = 3 THEN 300 ELSE 0]

\* The EEPROM contents the runs of ProgrammingSpec start on.
ProgrammingEEPROMs ==
  { writeSettings(BlankEEPROM,
                  [SavedSettings EXCEPT !.programmaticSlots = PatternJog]) }

\* setup() of the Customizable variant has returned, having found the
\* marker in the EEPROM and called readSettings().
ProgrammingInit ==
  /\ pc = "loop"
  /\ held = {}
  /\ sensed = {}
  /\ variant = "Customizable"
  /\ \E e0 \in ProgrammingEEPROMs :
       LET c == readSettings(e0)
       IN  /\ eeprom = e0
           /\ eepromAccess = "Read"
           /\ kerf = c.kerf
           /\ slop = c.slop
           /\ maxAdvance = c.maxAdvance
           /\ uniformSlot = c.uniformSlot
           /\ lengthOfWood = c.lengthOfWood
           /\ numberOfSlots = c.numberOfSlots
           /\ programmaticSlots = c.programmaticSlots
  /\ initialDTMValley = 0
  /\ initialDTMFinger = 0
  /\ subDTMValley = 0
  /\ subDTMFinger = 0
  /\ dmvCount = 0
  /\ lastDMV = NoDMV
  /\ state = MAIN_MENU
  /\ refreshDisplay = TRUE
  /\ isUniformCut = TRUE
  /\ isCutFirst = TRUE
  /\ programmaticIndex = 0
  /\ currentValleySize = 0
  /\ currentFingerSize = 0
  /\ distanceRemainingToCut = 0
  /\ distanceRemainingToMove = 0
  /\ motorEnabled = TRUE
  /\ button = "None"
  /\ moveCount = 0
  /\ lastMove = NoMove
  /\ travel = NoTravel
  /\ configOption = 0
  /\ configSlotCount = 0
  /\ configSlotDistance = 0
  /\ edits = 0

\* A Done press (Down) of the slot-programming menu.
DonePress ==
  /\ variant = "Customizable"
  /\ state = CONFIG_CHANGE_VALUE_MENU
  /\ configOption = 6
  /\ button' = "Down"

\* The value-change menu with at most MaxPresses Set and jog presses in a
\* run.  During the first MaxJogs of them the operator sets, jogs and
\* leaves with Done in any order; from then on the presses are Set presses,
\* with a last Done after MaxPresses.
ProgrammingStep ==
  /\ showConfigChangeValueMenu
  /\ SetPress => edits < MaxPresses
  /\ JogPress => edits < MaxJogs
  /\ DonePress => (edits <= MaxJogs \/ edits = MaxPresses)

ProgrammingNext ==
  \/ showMainMenu_Config
  \/ showConfigMenu
  \/ ProgrammingStep

ProgrammingSpec == ProgrammingInit /\ [][ProgrammingNext]_vars

\* ------------------------------------------------------------------------
\* The cut menu step by step: the polls, the waits for a release and the
\* steps of a move are separate steps, and the operator presses and
\* releases buttons at any time in between
\* ------------------------------------------------------------------------

\* Configurations with distances of a few thousandths: a move then has a
\* dozen steps, each of them a state.  With a maxAdvance of 0 every cut pass
\* is a move of distance 0.
ShortConfigurations == { <<3, 1, 1, 2>>, <<2, 1, 0, 1>>, <<2, 1, 0, 0>> }

PatternShort ==
  [i \in 0..(MAX_PROGRAMMATIC_SLOTS - 1) |->
     IF i = 0 THEN 2 ELSE IF i = 1 THEN 3 ELSE IF i = 2 THEN 1 ELSE 0]

\* setup() has returned, as in Init, with a short configuration.
SteppingInit ==
  /\ pc = "loop"
  /\ held = {}
  /\ sensed = {}
  /\ variant \in Variants
  /\ \E c \in ShortConfigurations :
       /\ uniformSlot = c[1]
       /\ kerf = c[2]
       /\ slop = c[3]
       /\ maxAdvance = c[4]
  /\ programmaticSlots = IF variant = "Customizable" THEN PatternShort
                         ELSE NoPattern
  /\ state = MAIN_MENU
  /\ refreshDisplay = TRUE
  /\ isUniformCut = TRUE
  /\ isCutFirst = TRUE
  /\ programmaticIndex = 0
  /\ currentValleySize = 0
  /\ currentFingerSize = 0
  /\ distanceRemainingToCut = 0
  /\ distanceRemainingToMove = 0
  /\ motorEnabled = TRUE      \* pinMode(OUTPUT) leaves the enable pin LOW
  /\ button = "None"
  /\ moveCount = 0
  /\ lastMove = NoMove
  /\ travel = NoTravel
  /\ configOption = 0
  /\ lengthOfWood = U32Bytes(4000)
  /\ numberOfSlots = 6
  /\ configSlotCount = 0
  /\ configSlotDistance = 0
  /\ eeprom = IF variant = "Customizable"
                THEN writeSettings(BlankEEPROM, settings)
                ELSE Simple_writeSettings(BlankEEPROM, settings)
  /\ eepromAccess = "None"
  /\ edits = 0
  /\ IF variant = "Customizable"
       THEN \* the quadruple is first computed when a session starts
            /\ initialDTMValley = 0
            /\ initialDTMFinger = 0
            /\ subDTMValley = 0
            /\ subDTMFinger = 0
            /\ dmvCount = 0
            /\ lastDMV = NoDMV
       ELSE \* setup() and writeSettings() call determineMovementValues(slot)
            LET q == Simple_determineMovementValues(uniformSlot, kerf, slop)
            IN  /\ initialDTMValley = q.initialDTMValley
                /\ initialDTMFinger = q.initialDTMFinger
                /\ subDTMValley = q.subDTMValley
                /\ subDTMFinger = q.subDTMFinger
                /\ dmvCount = 1
                /\ lastDMV = [valley |-> uniformSlot, finger |-> uniformSlot,
                              kerf |-> kerf, slop |-> slop]

\* The program is inside moveStepper(), called for a relocation or for a
\* cut pass.
Moving == {"relocating", "cutting"}

\* The operator presses or releases the back (Left) or the advance (Right)
\* button.
Operator ==
  /\ \E b \in {"Left", "Right"} :
       held' = IF b \in held THEN held \ {b} ELSE held \cup {b}
  /\ UNCHANGED <<variant, state, refreshDisplay, isUniformCut, isCutFirst,
                 parameters, programmaticIndex, quadruple, currentSizes,
                 remaining, motorEnabled, button, moveLog, dmvLog,
                 configSide, eepromAccess, pc, sensed>>

\* The menus before a session, one handler call at a time as in Spec, with
\* no button held when the call starts.
MenuStep ==
  /\ pc = "loop"
  /\ held = {}
  /\ showMainMenu \/ showCutTypeMenu \/ Simple_showMainMenu

\* One call of showCutMenu() up to its first wait: the display is redrawn
\* if asked for, then the Right pin is read and, if it is not pressed, the
\* Left pin.
showCutMenu_poll ==
  /\ pc = "loop"
  /\ state = CUT_MENU
  /\ IF "Right" \in held
       THEN /\ button' = "Right"
            /\ sensed' = {"Right"}
            /\ refreshDisplay' = TRUE
            /\ pc' = "waitRight"
     ELSE IF "Left" \in held
       THEN /\ button' = "Left"
            /\ sensed' = {"Right", "Left"}
            /\ refreshDisplay' = FALSE
            /\ pc' = "waitLeft"
     ELSE /\ refreshDisplay
          /\ button' = "None"
          /\ sensed' = {"Right", "Left"}
          /\ refreshDisplay' = FALSE
          /\ pc' = "loop"
  /\ UNCHANGED <<state, programmaticIndex, quadruple, currentSizes,
                 remaining, moveLog, dmvLog>>
  /\ eepromAccess' = "None"
  /\ UNCHANGED <<variant, isUniformCut, isCutFirst, parameters, motorEnabled,
                 configSide, held>>

\* waitForButtonRelease(pin) returns once the pin reads released.  After
\* the Left button the session is left; after the Right button the handler
\* enters moveStepper(), for the relocation if nothing is left to cut, else
\* for a pass of d(), which it has taken off the remaining cut before.
waitForButtonRelease ==
  /\ pc \in {"waitRight", "waitLeft"}
  /\ LET pin == IF pc = "waitRight" THEN "Right" ELSE "Left"
     IN  /\ pin \notin held
         /\ sensed' = {pin}
  /\ IF pc = "waitLeft"
       THEN /\ state' = MAIN_MENU
            /\ refreshDisplay' = TRUE
            /\ pc' = "loop"
            /\ UNCHANGED <<remaining, moveLog>>
     ELSE IF distanceRemainingToCut = 0
       THEN /\ pc' = "relocating"
            /\ travel' = Travelled(distanceRemainingToMove, TRUE, TRUE)
            /\ moveCount' = Bump(moveCount)
            /\ lastMove' = [dist |-> distanceRemainingToMove,
                            isLeft |-> TRUE, steps |-> 0, ok |-> TRUE]
            /\ UNCHANGED <<state, refreshDisplay, remaining>>
     ELSE LET m == d(distanceRemainingToCut, maxAdvance)
          IN  /\ pc' = "cutting"
              /\ distanceRemainingToCut' =
                   U16(distanceRemainingToCut + Neg16(m))
              /\ travel' = Travelled(m, TRUE, FALSE)
              /\ moveCount' = Bump(moveCount)
              /\ lastMove' = [dist |-> m, isLeft |-> TRUE, steps |-> 0,
                              ok |-> TRUE]
              /\ UNCHANGED <<state, refreshDisplay, distanceRemainingToMove>>
  /\ UNCHANGED <<button, programmaticIndex, quadruple, currentSizes, dmvLog>>
  /\ eepromAccess' = "None"
  /\ UNCHANGED <<variant, isUniformCut, isCutFirst, parameters, motorEnabled,
                 configSide, held>>

\* A faulty loop of moveStepper() that notes the pressed home switch but
\* goes on stepping.
moveStepper_step_keepsStepping ==
  /\ pc \in Moving
  /\ lastMove.steps < lastMove.dist * stepsPerThou
  /\ IF variant = "Simple"
       THEN /\ sensed' = {"Home"}
            /\ \E pressed \in BOOLEAN :
                 lastMove' = [lastMove EXCEPT !.steps = @ + 1,
                                              !.ok = @ /\ ~pressed]
       ELSE /\ sensed' = {}
            /\ lastMove' = [lastMove EXCEPT !.steps = @ + 1]
  /\ UNCHANGED <<state, refreshDisplay, pc, button, programmaticIndex,
                 quadruple, currentSizes, remaining, moveCount, travel,
                 dmvLog>>
  /\ eepromAccess' = "None"
  /\ UNCHANGED <<variant, isUniformCut, isCutFirst, parameters, motorEnabled,
                 configSide, held>>

\* A faulty loop of moveStepper() that looks at the back button after every
\* step and leaves the session as soon as it is pressed.
moveStepper_step_pollsBack ==
  /\ pc \in Moving
  /\ lastMove.ok
  /\ lastMove.steps < lastMove.dist * stepsPerThou
  /\ sensed' = {"Left"}
  /\ IF "Left" \in held
       THEN /\ lastMove' = [lastMove EXCEPT !.steps = @ + 1, !.ok = FALSE]
            /\ state' = MAIN_MENU
            /\ refreshDisplay' = TRUE
            /\ pc' = "loop"
       ELSE /\ lastMove' = [lastMove EXCEPT !.steps = @ + 1]
            /\ UNCHANGED <<state, refreshDisplay, pc>>
  /\ UNCHANGED <<button, programmaticIndex, quadruple, currentSizes,
                 remaining, moveCount, travel,
                 dmvLog>>
  /\ eepromAccess' = "None"
  /\ UNCHANGED <<variant, isUniformCut, isCutFirst, parameters, motorEnabled,
                 configSide, held>>

\* One turn of the for loop of moveStepper(): stepMotor() and, in the
\* Simple variant, a read of the home switch, which ends the move when it
\* reads pressed.
moveStepper_step ==
  /\ pc \in Moving
  /\ lastMove.ok
  /\ lastMove.steps < lastMove.dist * stepsPerThou
  /\ IF variant = "Simple"
       THEN /\ sensed' = {"Home"}
            /\ \E pressed \in BOOLEAN :
                 lastMove' = [lastMove EXCEPT !.steps = @ + 1,
                                              !.ok = ~pressed]
       ELSE /\ sensed' = {}
            /\ lastMove' = [lastMove EXCEPT !.steps = @ + 1]
  /\ UNCHANGED <<state, refreshDisplay, pc, button, programmaticIndex,
                 quadruple, currentSizes, remaining, moveCount, travel,
                 dmvLog>>
  /\ eepromAccess' = "None"
  /\ UNCHANGED <<variant, isUniformCut, isCutFirst, parameters, motorEnabled,
                 configSide, held>>

\* moveStepper() returns, after the last step or after the switch read
\* pressed, and showCutMenu() runs to its end: after a relocation it loads
\* the next pair in programmatic mode and sets the remaining distances.
moveStepper_return ==
  /\ pc \in Moving
  /\ ~lastMove.ok \/ lastMove.steps = lastMove.dist * stepsPerThou
  /\ pc' = "loop"
  /\ sensed' = {}
  /\ IF pc = "cutting"
       THEN UNCHANGED <<programmaticIndex, quadruple, currentSizes,
                        remaining, dmvLog>>
     ELSE IF isUniformCut
       THEN /\ distanceRemainingToCut' = subDTMValley
            /\ distanceRemainingToMove' = subDTMFinger
            /\ UNCHANGED <<programmaticIndex, quadruple, currentSizes,
                           dmvLog>>
     ELSE LET p == nextProgrammaticPair(programmaticSlots,
                                        programmaticIndex)
              q == determineMovementValues(p.valleySize, p.fingerSize,
                                           kerf, slop)
          IN  /\ programmaticIndex' = p.index
              /\ currentValleySize' = p.valleySize
              /\ currentFingerSize' = p.fingerSize
              /\ initialDTMValley' = q.initialDTMValley
              /\ initialDTMFinger' = q.initialDTMFinger
              /\ subDTMValley' = q.subDTMValley
              /\ subDTMFinger' = q.subDTMFinger
              /\ dmvCount' = Bump(dmvCount)
              /\ lastDMV' = [valley |-> p.valleySize,
                             finger |-> p.fingerSize,
                             kerf |-> kerf, slop |-> slop]
              /\ distanceRemainingToCut' = q.subDTMValley
              /\ distanceRemainingToMove' = q.subDTMFinger
  /\ UNCHANGED <<state, refreshDisplay, button, moveLog>>
  /\ eepromAccess' = "None"
  /\ UNCHANGED <<variant, isUniformCut, isCutFirst, parameters, motorEnabled,
                 configSide, held>>

SteppingNext ==
  \/ Operator
  \/ MenuStep
  \/ showCutMenu_poll
  \/ waitForButtonRelease
  \/ moveStepper_step
  \/ moveStepper_return

SteppingSpec == SteppingInit /\ [][SteppingNext]_vars

\* ------------------------------------------------------------------------
\* Properties
\* ------------------------------------------------------------------------
Min(a, b) == IF a <= b THEN a ELSE b

\* The four distances as the header comment gives them, as integers reduced
\* modulo 2^16.
Formula(valley, finger, k, s) ==
  <<(valley + s) % TwoTo16,
    (finger - s + k) % TwoTo16,
    (valley + s - k) % TwoTo16,
    (finger - s + k) % TwoTo16>>

\* C1: once determineMovementValues has run, the stored distances are
\* initialCut = valley + slop, initialMove = finger - slop + kerf,
\* subsequentCut = valley + slop - kerf, subsequentMove = finger - slop +
\* kerf of its inputs, each modulo 2^16; in a uniform session and in the
\* Simple variant valley = finger = the slot width.
C1_QuadrupleFormulas ==
  dmvCount > 0 =>
    /\ quadruple = Formula(lastDMV.valley, lastDMV.finger,
                           lastDMV.kerf, lastDMV.slop)
    /\ (state = CUT_MENU /\ (isUniformCut \/ variant = "Simple")) =>
         /\ lastDMV.valley = uniformSlot
         /\ lastDMV.finger = uniformSlot
         /\ lastDMV.kerf = kerf
         /\ lastDMV.slop = slop

\* A session whose subsequent cut distance wrapped (kerf > valley + slop) and
\* whose move distance did not.
C1_Witness ==
  /\ state = CUT_MENU
  /\ dmvCount > 0
  /\ lastDMV.kerf > lastDMV.valley + lastDMV.slop
  /\ subDTMValley = TwoTo16 + lastDMV.valley + lastDMV.slop - lastDMV.kerf
  /\ subDTMFinger = lastDMV.finger - lastDMV.slop + lastDMV.kerf

\* C2: an advance press with remainingCut > 0 issues exactly one move, of
\* length m = min(remainingCut, maxAdvance), toward; it decreases
\* remainingCut by m, leaves remainingMove, the quadruple and the pattern
\* cursor unchanged, stays in the cut menu, and remainingCut reaches 0
\* exactly when remainingCut <= maxAdvance.
C2_BoundedCutPass ==
  [][ (AdvancePress /\ distanceRemainingToCut > 0) =>
        LET m == Min(distanceRemainingToCut, maxAdvance)
        IN  /\ moveCount' = Bump(moveCount)
            /\ lastMove'.dist = m
            /\ lastMove'.isLeft = TRUE
            /\ distanceRemainingToCut' = distanceRemainingToCut - m
            /\ UNCHANGED <<distanceRemainingToMove, quadruple,
                           programmaticIndex>>
            /\ state' = CUT_MENU
            /\ (distanceRemainingToCut' = 0
                  <=> distanceRemainingToCut <= maxAdvance) ]_vars

\* A pass limited by maxAdvance has been made and more remains to be cut.
C2_Witness ==
  /\ state = CUT_MENU
  /\ button = "Right"
  /\ moveCount = 1
  /\ maxAdvance > 0
  /\ lastMove.dist = maxAdvance
  /\ distanceRemainingToCut > 0
  /\ distanceRemainingToCut = initialDTMValley - maxAdvance

\* C3: an advance press with remainingCut = 0 issues exactly one move of the
\* whole remainingMove, and afterwards remainingCut and remainingMove are the
\* subsequent cut and move distances of the active pair: the unchanged pair
\* in uniform mode, in programmatic mode the pair returned by two successive
\* getNextProgrammaticSlotSize calls, the valley first.
C3_Relocation ==
  [][ (AdvancePress /\ distanceRemainingToCut = 0) =>
        /\ moveCount' = Bump(moveCount)
        /\ lastMove'.dist = distanceRemainingToMove
        /\ lastMove'.isLeft = TRUE
        /\ state' = CUT_MENU
        /\ distanceRemainingToCut' = subDTMValley'
        /\ distanceRemainingToMove' = subDTMFinger'
        /\ IF isUniformCut
             THEN UNCHANGED <<quadruple, programmaticIndex>>
             ELSE LET v == getNextProgrammaticSlotSize(programmaticSlots,
                                                       programmaticIndex)
                      f == getNextProgrammaticSlotSize(programmaticSlots,
                                                       v.index)
                  IN  /\ quadruple' = Formula(v.size, f.size, kerf, slop)
                      /\ programmaticIndex' = f.index ]_vars

\* A relocation longer than maxAdvance has loaded the second pair of a
\* pattern whose valleys and fingers differ.
C3_Witness ==
  /\ state = CUT_MENU
  /\ button = "Right"
  /\ ~isUniformCut
  /\ dmvCount = 2
  /\ lastMove.dist > maxAdvance
  /\ currentValleySize # currentFingerSize
  /\ distanceRemainingToCut = subDTMValley
  /\ distanceRemainingToMove = subDTMFinger

\* C4: right after the session start (no advance press yet) a positive
\* session has remainingCut = initialCutDistance and remainingMove =
\* initialMoveDistance, a negative one remainingCut = 0 and remainingMove =
\* initialMoveDistance.
C4_SessionSeed ==
  (state = CUT_MENU /\ moveCount = 0) =>
    /\ distanceRemainingToMove = initialDTMFinger
    /\ distanceRemainingToCut = IF isCutFirst THEN initialDTMValley ELSE 0

\* A negative programmatic session has just started, with a quadruple whose
\* initial and subsequent cut distances differ.
C4_Witness ==
  /\ state = CUT_MENU
  /\ moveCount = 0
  /\ ~isCutFirst
  /\ ~isUniformCut
  /\ initialDTMValley # 0
  /\ initialDTMValley # subDTMValley
  /\ distanceRemainingToMove = currentFingerSize - slop + kerf

\* The uniform cut-first session of the Customizable variant with
\* slotWidth = 500, kerf = 123, slop = 2 and maxAdvance = 120.
C5_Session ==
  /\ variant = "Customizable"
  /\ state = CUT_MENU
  /\ isUniformCut
  /\ isCutFirst
  /\ uniformSlot = 500
  /\ kerf = 123
  /\ slop = 2
  /\ maxAdvance = 120

\* The session start and the first five advance presses of that session.
C5_FivePasses ==
  /\ moveCount = 0 => distanceRemainingToCut = 502
  /\ moveCount = 1 => (lastMove.dist = 120 /\ distanceRemainingToCut = 382)
  /\ moveCount = 2 => (lastMove.dist = 120 /\ distanceRemainingToCut = 262)
  /\ moveCount = 3 => (lastMove.dist = 120 /\ distanceRemainingToCut = 142)
  /\ moveCount = 4 => (lastMove.dist = 120 /\ distanceRemainingToCut = 22)
  /\ moveCount = 5 => (lastMove.dist = 22 /\ distanceRemainingToCut = 0)

\* C5 as stated: that session starts with remainingCut = 502, five advance
\* presses move 120, 120, 120, 120, 22 and bring remainingCut to 0, and the
\* sixth press relocates by 619.
C5_Original ==
  C5_Session =>
    /\ C5_FivePasses
    /\ moveCount = 6 => lastMove.dist = 619

\* C5 as amended: the same passes, and the sixth press relocates by
\* 621 = 500 - 2 + 123.
C5_Amended ==
  C5_Session =>
    /\ C5_FivePasses
    /\ moveCount = 6 =>
         (lastMove.dist = 621 /\ distanceRemainingToCut = 379
            /\ distanceRemainingToMove = 621)

\* The sixth advance press of that session has been handled.
C5_Witness == C5_Session /\ moveCount = 6 /\ button = "Right"

\* A programmatic session on the pattern [200,300,450,300,200,0,...].
C6_Session ==
  /\ variant = "Customizable"
  /\ state = CUT_MENU
  /\ ~isUniformCut
  /\ programmaticSlots = PatternExample

\* C6: with that pattern the first three (valley, finger) pairs given to
\* determineMovementValues are (200,300), (450,300), (200,200) in a positive
\* session and (0,200), (300,450), (300,200) in a negative one.
C6_ExamplePairs ==
  C6_Session =>
    LET pair == <<lastDMV.valley, lastDMV.finger>>
    IN  IF isCutFirst
          THEN /\ dmvCount = 1 => pair = <<200, 300>>
               /\ dmvCount = 2 => pair = <<450, 300>>
               /\ dmvCount = 3 => pair = <<200, 200>>
          ELSE /\ dmvCount = 1 => pair = <<0, 200>>
               /\ dmvCount = 2 => pair = <<300, 450>>
               /\ dmvCount = 3 => pair = <<300, 200>>

\* The third pair of a positive session, whose finger comes from the wrap.
C6_Witness ==
  /\ C6_Session
  /\ isCutFirst
  /\ dmvCount = 3
  /\ programmaticIndex = 0
  /\ currentValleySize = 200
  /\ currentFingerSize = 200

\* C7: in the Simple variant, when the move of a cut pass of requested
\* length m is aborted by the limit switch, remainingCut has not been
\* decreased by the whole m.
C7_AbortedPassNotCounted ==
  [][ (variant = "Simple" /\ AdvancePress /\ distanceRemainingToCut > 0
         /\ ~lastMove'.ok) =>
        distanceRemainingToCut' # distanceRemainingToCut - lastMove'.dist
    ]_vars

\* C8: in the Simple variant, when the relocation move is aborted by the
\* limit switch, the session does not go on: the remaining distances are not
\* reloaded with the subsequent distances.
C8_AbortedRelocationNotReloaded ==
  [][ (variant = "Simple" /\ AdvancePress /\ distanceRemainingToCut = 0
         /\ ~lastMove'.ok) =>
        \/ UNCHANGED remaining
        \/ ~(distanceRemainingToCut' = subDTMValley
               /\ distanceRemainingToMove' = subDTMFinger) ]_vars

\* The cursor one call of getNextProgrammaticSlotSize leaves, as C9 states
\* it: one further, or index 0 when that position is at or past
\* MAX_PROGRAMMATIC_SLOTS or holds the sentinel 0.
C9_Advanced(index) ==
  IF index + 1 >= MAX_PROGRAMMATIC_SLOTS THEN 0
  ELSE IF programmaticSlots[index + 1] = 0 THEN 0
  ELSE index + 1

\* An advance press that relocates in a programmatic session.
ProgrammaticRelocation ==
  /\ variant = "Customizable"
  /\ AdvancePress
  /\ distanceRemainingToCut = 0
  /\ ~isUniformCut

\* C9: each of the two getNextProgrammaticSlotSize calls of a relocation
\* moves the cursor as C9_Advanced says and returns the entry at the cursor
\* it leaves, in positive and in negative sessions alike.
C9_CursorAdvance ==
  [][ ProgrammaticRelocation =>
        LET first == C9_Advanced(programmaticIndex)
            second == C9_Advanced(first)
        IN  /\ programmaticIndex' = second
            /\ currentValleySize' = programmaticSlots[first]
            /\ currentFingerSize' = programmaticSlots[second]
            /\ lastDMV'.valley = programmaticSlots[first]
            /\ lastDMV'.finger = programmaticSlots[second] ]_vars

\* A negative session on the pattern with all 64 entries set has passed the
\* end of the array: the valley is entry 63 and the finger, after the wrap
\* at MAX_PROGRAMMATIC_SLOTS, entry 0.
C9_Witness ==
  /\ state = CUT_MENU
  /\ button = "Right"
  /\ ~isUniformCut
  /\ ~isCutFirst
  /\ programmaticSlots = PatternFull
  /\ dmvCount > 1
  /\ programmaticIndex = 0
  /\ currentValleySize = programmaticSlots[MAX_PROGRAMMATIC_SLOTS - 1]
  /\ currentFingerSize = programmaticSlots[0]

\* One of the two cursor advances of a relocation from the current cursor
\* runs into the sentinel or the end of the array.
C10_FirstExhausts == C9_Advanced(programmaticIndex) = 0

C10_SecondExhausts == C9_Advanced(C9_Advanced(programmaticIndex)) = 0

\* C10 as stated: in a negative programmatic session the pattern is not
\* wrapped; when the cursor reaches the sentinel or the maximum length no
\* further pair is produced from the start of the pattern and the session
\* ends.
C10_Original ==
  [][ (ProgrammaticRelocation /\ ~isCutFirst
         /\ (C10_FirstExhausts \/ C10_SecondExhausts)) =>
        /\ state' # CUT_MENU
        /\ UNCHANGED <<dmvCount, lastDMV, programmaticIndex>> ]_vars

\* C10 as amended: negative sessions wrap as positive ones do; when the
\* cursor reaches the sentinel or the maximum length the session stays in
\* the cut menu and the next pair takes entry 0 of the pattern for the
\* exhausted position.
C10_Amended ==
  [][ (ProgrammaticRelocation
         /\ (C10_FirstExhausts \/ C10_SecondExhausts)) =>
        /\ state' = CUT_MENU
        /\ dmvCount' = Bump(dmvCount)
        /\ C10_FirstExhausts => lastDMV'.valley = programmaticSlots[0]
        /\ C10_SecondExhausts =>
             (lastDMV'.finger = programmaticSlots[0]
                /\ programmaticIndex' = 0) ]_vars

\* A negative session on the example pattern has wrapped: its fourth pair
\* takes its valley from entry 0.
C10_Witness ==
  /\ state = CUT_MENU
  /\ button = "Right"
  /\ ~isUniformCut
  /\ ~isCutFirst
  /\ programmaticSlots = PatternExample
  /\ dmvCount = 4
  /\ programmaticIndex = 1
  /\ currentValleySize = 200
  /\ currentFingerSize = 300

\* The quadruple in memory was computed for one slot width (a uniform
\* session, or the Simple variant).
C11_OneWidth == dmvCount > 0 /\ lastDMV.valley = lastDMV.finger

\* The conclusion of C11: read as plain integers, subsequentCut + kerf is
\* slotWidth + slop and subsequentMove is slotWidth - slop + kerf.
C11_PlainIntegers ==
  /\ subDTMValley + lastDMV.kerf = lastDMV.valley + lastDMV.slop
  /\ subDTMFinger = lastDMV.valley - lastDMV.slop + lastDMV.kerf

\* C11 as stated: whenever slop*2 <= slotWidth and slop <= slotWidth + kerf,
\* the stored subsequent distances satisfy, as plain integers,
\* subsequentCut + kerf = slotWidth + slop and subsequentMove = slotWidth -
\* slop + kerf.
C11_Original ==
  (C11_OneWidth /\ lastDMV.slop * 2 <= lastDMV.valley
     /\ lastDMV.slop <= lastDMV.valley + lastDMV.kerf) => C11_PlainIntegers

\* C11 as amended: the two equations hold as plain integers whenever
\* kerf <= slotWidth + slop, slop <= slotWidth + kerf and neither
\* slotWidth + slop - kerf nor slotWidth - slop + kerf exceeds 65535.
C11_Amended ==
  (C11_OneWidth
     /\ lastDMV.kerf <= lastDMV.valley + lastDMV.slop
     /\ lastDMV.slop <= lastDMV.valley + lastDMV.kerf
     /\ lastDMV.valley + lastDMV.slop - lastDMV.kerf < TwoTo16
     /\ lastDMV.valley - lastDMV.slop + lastDMV.kerf < TwoTo16)
    => C11_PlainIntegers

\* A uniform session of the Customizable variant whose kerf and slop are
\* both non-zero and smaller than the slot width: the stored subsequent
\* distances differ from each other and from the slot width.
C11_Witness ==
  /\ variant = "Customizable"
  /\ state = CUT_MENU
  /\ isUniformCut
  /\ C11_OneWidth
  /\ lastDMV.slop > 0
  /\ lastDMV.kerf > lastDMV.slop
  /\ lastDMV.kerf < lastDMV.valley
  /\ subDTMValley < lastDMV.valley
  /\ subDTMFinger > lastDMV.valley

\* C12: in the Customizable, the Simple and the legacy variant the initial
\* cut distance is slotWidth + slop exactly, without a kerf term, whenever
\* slotWidth + slop fits in 16 bits, whatever the kerf.
C12_InitialCutHasNoKerf ==
  (dmvCount > 0 /\ lastDMV.valley + lastDMV.slop < TwoTo16) =>
    initialDTMValley = lastDMV.valley + lastDMV.slop

\* A positive session of the legacy variant has just started with
\* remainingCut = slot + slop, which a kerf term would have changed.
C12_Witness ==
  /\ variant = "Legacy"
  /\ state = CUT_MENU
  /\ isCutFirst
  /\ moveCount = 0
  /\ kerf > 0
  /\ uniformSlot + slop < TwoTo16
  /\ distanceRemainingToCut = uniformSlot + slop
  /\ distanceRemainingToCut # subDTMValley

\* C15: the move issued by moveStepper is reported completed (true) if and
\* only if the full requested number of steps, stepsPerThou for each
\* thousandth, was issued, for every distance including 0 and for a switch
\* that trips after any step, including the last.
C15_CompletedIffAllSteps ==
  lastMove.ok <=> (lastMove.steps = lastMove.dist * stepsPerThou)

\* C16: for a distance of at least one thousandth an unobstructed
\* moveStepper issues at least one step and at least stepsPerThou steps for
\* each thousandth.
C16_StepCount ==
  (lastMove.ok /\ lastMove.dist >= 1) =>
    /\ lastMove.steps >= 1
    /\ lastMove.steps >= lastMove.dist * stepsPerThou

\* C13: a back press in the cut menu returns to the main menu from every
\* session state, issues no carriage move and writes nothing to the
\* persistent configuration: the settings in memory and the EEPROM are as
\* before.
C13_BackPress ==
  [][BackPress =>
       /\ state' = MAIN_MENU
       /\ UNCHANGED moveLog
       /\ UNCHANGED <<settingsVars, eeprom>>
       /\ eepromAccess' = "None"]_vars

\* The main menu reached by a back press in the middle of a programmatic
\* session: after a relocation, with a later pair of the pattern under the
\* cursor and part of a cut still to do.
C13_Witness ==
  /\ state = MAIN_MENU
  /\ button = "Left"
  /\ ~isUniformCut
  /\ moveCount >= 2
  /\ programmaticIndex > 1
  /\ distanceRemainingToCut > 0
  /\ distanceRemainingToMove > 0

\* C19: in the cut menu no press, advance or back, changes kerf, slop,
\* maxAdvance, the uniform slot width, an entry of the programmed pattern,
\* the wood length, the slot count or the kind of session; what a press
\* changes is the cursor, the quadruple with the widths it was computed
\* from, and the remaining distances.
C19_SessionKeepsParameters ==
  [][state = CUT_MENU =>
       UNCHANGED <<parameters, lengthOfWood, numberOfSlots, isUniformCut,
                   isCutFirst>>]_vars

\* A programmatic session has relocated and fetched the next pair of the
\* pattern: the cursor has moved and the quadruple has been recomputed.
C19_Witness ==
  /\ variant = "Customizable"
  /\ state = CUT_MENU
  /\ ~isUniformCut
  /\ button = "Right"
  /\ distanceRemainingToCut = subDTMValley
  /\ programmaticIndex > 1
  /\ dmvCount >= 2
  /\ moveCount >= 1

\* C14: a save followed by the readSettings of the next boot reproduces every
\* field of the configuration that was in memory when it was saved: kerf,
\* slop, maxAdvance, slot width, wood length, slot count and every pattern
\* entry.
C14_RoundTrip ==
  [][eepromAccess' = "Write" =>
       settings' = IF variant = "Simple"
                     THEN Simple_readSettings(eeprom', Simple_Defaults)
                     ELSE readSettings(eeprom')]_vars

\* A press that saves: Back in the value-change menu, Done in the
\* slot-programming menu.
SavePress ==
  /\ state = CONFIG_CHANGE_VALUE_MENU
  /\ button' = IF configOption = 6 THEN "Down" ELSE "Left"

\* Cancel in the value-change menu.
CancelPress ==
  /\ state = CONFIG_CHANGE_VALUE_MENU
  /\ configOption # 6
  /\ button' = "Right"

\* C18: after boot the EEPROM is never read, and it is written only by a
\* press that saves: no handler call made in the cut menu reads or writes
\* it, and Cancel in the value-change menu leaves every byte as it was.
C18_EEPROMAccess ==
  [][/\ state = CUT_MENU => (eepromAccess' = "None" /\ UNCHANGED eeprom)
     /\ CancelPress => (eepromAccess' = "None" /\ UNCHANGED eeprom)
     /\ (eepromAccess' # "None" \/ eeprom' # eeprom) =>
          (SavePress /\ eepromAccess' = "Write")]_vars

\* Cancel has just closed the value-change menu on an edited value: the
\* settings in memory are no longer the ones the EEPROM holds.
C18_Witness ==
  /\ variant = "Customizable"
  /\ state = CONFIG_MENU
  /\ button = "Right"
  /\ configOption < 6
  /\ edits >= 1
  /\ eepromAccess = "None"
  /\ settings # readSettings(eeprom)

StepInsideMove == pc \in Moving /\ pc' \in Moving /\ held' = held

\* While the program is inside moveStepper, whatever the operator presses,
\* the menu shown stays the cut menu, and until moveStepper has returned the
\* session is as the advance press left it.
C17_MoveRunsToCompletion ==
  /\ pc \in Moving => (state = CUT_MENU /\ state' = CUT_MENU)
  /\ (pc \in Moving /\ pc' \in Moving) =>
       UNCHANGED <<session, parameters, refreshDisplay, button, moveCount>>

\* C17 as stated: between the first and the last step of a carriage move no
\* input pin at all is read, and a back press made while the move is in
\* progress changes neither the menu state nor the session state until
\* moveStepper has returned.
C17_Original ==
  [][/\ StepInsideMove => sensed' = {}
     /\ C17_MoveRunsToCompletion]_vars

\* C17, amended: between the first and the last step of a carriage move no
\* button is read (the home switch may be), and a back press made while the
\* move is in progress changes neither the menu state nor the session state
\* until moveStepper has returned.
C17_Amended ==
  [][/\ StepInsideMove => sensed' \subseteq {"Home"}
     /\ C17_MoveRunsToCompletion]_vars

\* The operator holds the back button down in the middle of a move: some
\* steps are issued, some are still to come.
C17_Witness ==
  /\ pc \in Moving
  /\ "Left" \in held
  /\ state = CUT_MENU
  /\ lastMove.ok
  /\ lastMove.steps >= 1
  /\ lastMove.steps < lastMove.dist * stepsPerThou

\* C21: in the Simple variant a cut session started from the main menu,
\* after whatever config-menu edits ended by Back or Cancel came before,
\* finds the four stored distances equal to the formulas applied to the
\* slot, slop and kerf that are in memory.
C21_SessionOnCurrentParameters ==
  (variant = "Simple" /\ state = CUT_MENU) =>
    quadruple = Formula(uniformSlot, uniformSlot, kerf, slop)

\* C22: kerf > 0 and maxAdvance > 0 in every reachable state: after the
\* load at boot, after every Up, Down, Back and Cancel press of the config
\* menus, and when a cut session starts.
C22_PositiveKerfAndAdvance == kerf > 0 /\ maxAdvance > 0

\* A positive programmatic session.
C23_Session ==
  /\ variant = "Customizable"
  /\ state = CUT_MENU
  /\ ~isUniformCut
  /\ isCutFirst

\* The pair in use was read from an even index (the valley) and the odd
\* index after it (the finger), where the cursor stands.
C23_EvenOddPair ==
  /\ programmaticIndex % 2 = 1
  /\ currentValleySize = programmaticSlots[programmaticIndex - 1]
  /\ currentFingerSize = programmaticSlots[programmaticIndex]

\* The number of entries of the pattern before the sentinel.
C23_PatternLength ==
  CHOOSE n \in 0..MAX_PROGRAMMATIC_SLOTS :
    /\ \A i \in 0..(n - 1) : programmaticSlots[i] # 0
    /\ n = MAX_PROGRAMMATIC_SLOTS \/ programmaticSlots[n] = 0

C24_SwitchStopsMove ==
  [][(variant = "Simple" /\ pc \in Moving) =>
       /\ ~lastMove.ok => lastMove' = lastMove
       /\ lastMove.dist = 0 =>
            (lastMove.ok /\ lastMove' = lastMove /\ "Home" \notin sensed')]_vars

\* A move of the Simple variant that the home switch has stopped before its
\* last step.
C24_Witness ==
  /\ variant = "Simple"
  /\ pc \in Moving
  /\ ~lastMove.ok
  /\ lastMove.steps >= 1
  /\ lastMove.steps < lastMove.dist * stepsPerThou

\* C25: a cut pass is never longer than remainingCut, so taking it off
\* remainingCut does not wrap below zero, and from one relocation to the
\* next remainingCut never grows, for every maxAdvance including 0 and
\* values larger than remainingCut.
C25_PassWithinCut ==
  [][(state = CUT_MENU /\ ~(AdvancePress /\ distanceRemainingToCut = 0)) =>
       /\ distanceRemainingToCut' <= distanceRemainingToCut
       /\ AdvancePress =>
            /\ lastMove'.dist <= distanceRemainingToCut
            /\ distanceRemainingToCut' =
                 distanceRemainingToCut - lastMove'.dist]_vars

\* The first pass of a session whose maxAdvance is larger than the whole
\* cut: it took all of the initial cut and nothing remains.
C25_Witness ==
  /\ state = CUT_MENU
  /\ button = "Right"
  /\ isCutFirst
  /\ moveCount = 1
  /\ lastMove.dist > 0
  /\ lastMove.dist < maxAdvance
  /\ lastMove.dist = initialDTMValley
  /\ distanceRemainingToCut = 0

\* The number of passes a cut of c needs: ceil(c / maxAdvance).
C26_Passes(c) == (c + maxAdvance - 1) \div maxAdvance

\* C26: for maxAdvance >= 1, every advance press made with remainingCut > 0
\* brings the number of passes still needed, ceil(remainingCut /
\* maxAdvance), down by exactly one, so that a cut of c is at 0 after
\* exactly ceil(c / maxAdvance) presses; the press made with remainingCut =
\* 0 performs the relocation by the whole remainingMove.
C26_PassesCountDown ==
  [][(AdvancePress /\ maxAdvance >= 1) =>
       IF distanceRemainingToCut > 0
         THEN C26_Passes(distanceRemainingToCut') =
                C26_Passes(distanceRemainingToCut) - 1
         ELSE lastMove'.dist = distanceRemainingToMove]_vars

\* The valley of the default configuration (502 to cut, 120 at a time) is
\* complete after the fifth press and not before.
C26_Witness ==
  /\ state = CUT_MENU
  /\ button = "Right"
  /\ isCutFirst
  /\ maxAdvance = 120
  /\ initialDTMValley = 502
  /\ moveCount = 5
  /\ lastMove.dist = 22
  /\ distanceRemainingToCut = 0

\* C27: in the Customizable and the Simple variant the stored subsequent
\* move distance is slotWidth - slop + kerf reduced modulo 2^16 for every
\* configuration, nothing being clamped or rejected; when slotWidth + kerf
\* <= 65535 and slop*2 <= slotWidth + kerf it has not underflowed: it is
\* the integer slotWidth - slop + kerf, which is >= 0.
C27_SubsequentMoveNotUnderflowed ==
  (variant \in {"Customizable", "Simple"} /\ dmvCount > 0) =>
    /\ subDTMFinger =
         (lastDMV.finger - lastDMV.slop + lastDMV.kerf) % TwoTo16
    /\ (lastDMV.finger + lastDMV.kerf <= 65535
          /\ lastDMV.slop * 2 <= lastDMV.finger + lastDMV.kerf) =>
         /\ subDTMFinger = lastDMV.finger - lastDMV.slop + lastDMV.kerf
         /\ lastDMV.finger - lastDMV.slop + lastDMV.kerf >= 0

\* The Simple variant runs a session whose slop is smaller than half of
\* slot + kerf: the stored move distance is the slot less the slop plus
\* the kerf, above the slot width.
C27_Witness ==
  /\ variant = "Simple"
  /\ state = CUT_MENU
  /\ dmvCount > 0
  /\ lastDMV.slop > 0
  /\ lastDMV.slop * 2 <= lastDMV.finger + lastDMV.kerf
  /\ lastDMV.finger + lastDMV.kerf <= 65535
  /\ subDTMFinger = lastDMV.finger - lastDMV.slop + lastDMV.kerf
  /\ subDTMFinger > lastDMV.finger

\* C28: the legacy variant satisfies the quadruple invariant for every slot,
\* slop and kerf: its subsequent cut distance is slot + slop - kerf and its
\* initial and subsequent move distances are both slot - slop + kerf, all
\* modulo 2^16.
C28_LegacyQuadruple ==
  (variant = "Legacy" /\ dmvCount > 0) =>
    /\ subDTMValley =
         (lastDMV.valley + lastDMV.slop - lastDMV.kerf) % TwoTo16
    /\ initialDTMFinger =
         (lastDMV.finger - lastDMV.slop + lastDMV.kerf) % TwoTo16
    /\ subDTMFinger =
         (lastDMV.finger - lastDMV.slop + lastDMV.kerf) % TwoTo16

\* A session of one slot width: a uniform session of the Customizable
\* variant, or any session of the Simple variant.
C29_UniformSession ==
  /\ state = CUT_MENU
  /\ variant = "Simple" \/ (variant = "Customizable" /\ isUniformCut)

\* C29: in a uniform-mode session no step, up to and including the back
\* press, changes any of the four stored distances, and every relocation
\* loads remainingCut and remainingMove with the stored subsequentCut and
\* subsequentMove, however many advance presses came before.
C29_SamePairEveryTime ==
  [][C29_UniformSession =>
       /\ quadruple' = quadruple
       /\ (AdvancePress /\ distanceRemainingToCut = 0) =>
            /\ distanceRemainingToCut' = subDTMValley
            /\ distanceRemainingToMove' = subDTMFinger]_vars

\* A positive uniform session of the Customizable variant on a 125 slot has
\* just relocated for the second time: two passes, a relocation, one pass
\* and a relocation, and the third valley is loaded as the second was.
C29_Witness ==
  /\ variant = "Customizable"
  /\ state = CUT_MENU
  /\ isUniformCut
  /\ isCutFirst
  /\ button = "Right"
  /\ uniformSlot = 125
  /\ moveCount = 5
  /\ lastMove.dist = subDTMFinger
  /\ distanceRemainingToCut = subDTMValley
  /\ distanceRemainingToMove = subDTMFinger
  /\ subDTMValley > 0
  /\ subDTMValley # initialDTMValley

\* The operator chooses Positive or Negative in the cut-type menu.
C30_Choice ==
  variant = "Customizable" /\ state = CUT_TYPE_MENU /\ state' = CUT_MENU

\* The quadruple a session starts on, from the parameters, the mode and the
\* uniform/programmatic choice alone.
C30_StartQuadruple(uniform, cutFirst) ==
  IF uniform THEN Formula(uniformSlot, uniformSlot, kerf, slop)
  ELSE IF cutFirst
    THEN Formula(programmaticSlots[0], programmaticSlots[1], kerf, slop)
    ELSE Formula(0, programmaticSlots[0], kerf, slop)

\* remainingCut and remainingMove at the start of a session on quadruple q.
C30_StartRemaining(cutFirst, q) ==
  IF cutFirst THEN <<q[1], q[4]>> ELSE <<0, q[2]>>

\* The quadruple, remainingCut and remainingMove right after the choice are
\* those of a first session.
C30_FreshDistances ==
  /\ quadruple' = C30_StartQuadruple(isUniformCut', isCutFirst')
  /\ remaining' = C30_StartRemaining(isCutFirst', quadruple')

\* C30 as stated: in the Customizable variant the state right after
\* choosing Positive or Negative (remainingCut, remainingMove, the
\* quadruple, the pattern cursor) is a function of the current parameters,
\* the mode and the uniform/programmatic choice: the one a first session
\* starts in, with the cursor of a uniform session at its initial 0.
C30_Original ==
  [][C30_Choice =>
       /\ C30_FreshDistances
       /\ programmaticIndex' = IF isUniformCut' THEN 0
                               ELSE IF isCutFirst' THEN 1 ELSE 0]_vars

\* C30 as amended: remainingCut, remainingMove and the quadruple right
\* after the choice are a function of the current parameters, the mode and
\* the uniform/programmatic choice, and so is the pattern cursor of a
\* programmatic session; a uniform session, which never reads the cursor,
\* leaves it where the session before left it.
C30_Amended ==
  [][C30_Choice =>
       /\ C30_FreshDistances
       /\ programmaticIndex' = IF isUniformCut' THEN programmaticIndex
                               ELSE IF isCutFirst' THEN 1 ELSE 0]_vars

\* A uniform session has just started after a programmatic session that
\* was left with its cursor inside the pattern: the distances are those of
\* a first session, the cursor is not.
C30_Witness ==
  /\ variant = "Customizable"
  /\ state = CUT_MENU
  /\ isUniformCut
  /\ button \in {"Left", "Right"}
  /\ moveCount = 0
  /\ programmaticIndex > 1
  /\ quadruple = Formula(uniformSlot, uniformSlot, kerf, slop)
  /\ distanceRemainingToMove = (uniformSlot - slop + kerf) % TwoTo16

\* C31: in every reachable state of the Customizable variant the pattern
\* cursor programmaticIndex lies within 0..63, the indices of
\* programmaticSlots, so that the entry getNextProgrammaticSlotSize returns
\* is read inside the array; this for every pattern, one with all 64
\* entries non-zero included, and after any number of advance presses.
C31_CursorInsidePattern ==
  variant = "Customizable" =>
    /\ programmaticIndex \in 0..(MAX_PROGRAMMATIC_SLOTS - 1)
    /\ programmaticIndex \in DOMAIN programmaticSlots

\* A negative session on the pattern with all 64 entries programmed has
\* stepped its cursor past entry 63 and back to entry 0: the valley is entry
\* 63, the finger entry 0.
C31_Witness ==
  /\ variant = "Customizable"
  /\ state = CUT_MENU
  /\ ~isUniformCut
  /\ ~isCutFirst
  /\ programmaticSlots = PatternFull
  /\ programmaticIndex = 0
  /\ currentValleySize = programmaticSlots[MAX_PROGRAMMATIC_SLOTS - 1]
  /\ currentFingerSize = programmaticSlots[0]

\* C32: while the slot pattern is programmed, every write to and read from
\* programmaticSlots is at an index below 64: on a Set press
\* configSlotCount, the index written, and the incremented configSlotCount,
\* the index read, are both below 64, after any number of Set presses and
\* across visits to the menu.
C32_IndexBelowMaximum ==
  [][SetPress =>
       /\ configSlotCount < MAX_PROGRAMMATIC_SLOTS
       /\ configSlotCount' < MAX_PROGRAMMATIC_SLOTS]_vars

\* The valley and the finger width the session is working on.
C33_Valley ==
  IF variant = "Simple" \/ isUniformCut THEN uniformSlot
  ELSE currentValleySize

C33_Finger ==
  IF variant = "Simple" \/ isUniformCut THEN uniformSlot
  ELSE currentFingerSize

\* None of the distances of the pair the session is working on wraps.
C33_NoWrap ==
  /\ C33_Valley + slop < TwoTo16
  /\ C33_Valley + slop - kerf >= 0
  /\ C33_Finger - slop + kerf >= 0
  /\ C33_Finger - slop + kerf < TwoTo16

\* Where the carriage stands once the pair the session is working on is
\* complete: the travel so far, and what remains to cut and to move.
C33_EndOfPair ==
  travel.thou + distanceRemainingToCut + distanceRemainingToMove

C34_Session ==
  /\ variant = "Customizable"
  /\ state = CUT_MENU
  /\ ~isUniformCut
  /\ ~isCutFirst

\* The quadruple in memory is the one computed at the start of the session
\* from the placeholder valley width 0.
C34_Placeholder == dmvCount > 0 /\ lastDMV.valley = 0

\* C34: in a negative programmatic session, as long as the quadruple
\* computed from the placeholder valley width 0 is in memory, remainingCut
\* is 0 and no move has been made; the first advance press moves by the
\* initial move distance, recomputes the quadruple from a pattern pair and
\* only then loads remainingCut, from the new quadruple.  The subsequent
\* cut distance of the placeholder is never loaded and never a move length.
C34_PlaceholderCutUnused ==
  [][/\ (C34_Session' /\ C34_Placeholder') =>
          (distanceRemainingToCut' = 0 /\ moveCount' = 0)
     /\ (C34_Session /\ C34_Placeholder /\ AdvancePress) =>
          /\ ~C34_Placeholder'
          /\ lastDMV'.valley = currentValleySize'
          /\ \E i \in DOMAIN programmaticSlots :
               programmaticSlots[i] = currentValleySize'
          /\ lastMove'.dist = initialDTMFinger
          /\ distanceRemainingToCut' = subDTMValley'
          /\ distanceRemainingToCut' =
               (currentValleySize' + slop - kerf) % TwoTo16]_vars

\* A negative programmatic session with kerf > slop, whose placeholder cut
\* distance wrapped, after its first advance press: remainingCut is the
\* subsequent cut distance of the pattern's second entry.
C34_Witness ==
  /\ C34_Session
  /\ button = "Right"
  /\ kerf > slop
  /\ moveCount = 1
  /\ currentValleySize = programmaticSlots[1]
  /\ distanceRemainingToCut = currentValleySize + slop - kerf
  /\ distanceRemainingToCut # (slop - kerf) % TwoTo16
  /\ lastMove.dist = programmaticSlots[0] - slop + kerf

\* A programmatic session of the Customizable variant on a pattern whose
\* entry 0 is non-zero.
C35_Session ==
  /\ variant = "Customizable"
  /\ state = CUT_MENU
  /\ ~isUniformCut
  /\ programmaticSlots[0] # 0
  /\ dmvCount > 0

\* The pair in memory is the placeholder pair (0, entry 0) a negative
\* session starts on.
C35_NegativeStart == ~isCutFirst /\ dmvCount = 1

C36_MovingPress ==
  variant = "Customizable" /\ (AdvancePress \/ SetPress \/ JogPress)

\* C36: in the Customizable variant every press whose handler calls
\* moveStepper, in the cut menu or in the slot-programming menu, finds the
\* motor driver enabled and leaves it enabled, after any sequence of menu
\* transitions.
C36_MovesWithMotorOn ==
  [][C36_MovingPress => (motorEnabled /\ motorEnabled')]_vars

\* The slot-programming menu has jogged the carriage by 5 with the motor
\* on, which the redraw of the main menu had switched off before.
C36_Witness ==
  /\ variant = "Customizable"
  /\ state = CONFIG_CHANGE_VALUE_MENU
  /\ configOption = 6
  /\ button = "Right"
  /\ moveCount = 1
  /\ lastMove.dist = 5
  /\ lastMove.isLeft
  /\ motorEnabled

\* An Up or Down press on the Length or the Fingers option: the handler
\* changes the value and calls recalculateSlotSize().
C37_Recalculates ==
  /\ state = CONFIG_CHANGE_VALUE_MENU
  /\ configOption \in {4, 5}
  /\ button' \in {"Up", "Down"}

\* C37: whenever recalculateSlotSize divides lengthOfWood by numberOfSlots,
\* after an Up or Down press on the Length or the Fingers option,
\* numberOfSlots is not 0.
C37_NonZeroDivisor ==
  [][C37_Recalculates => numberOfSlots' # 0]_vars

\* C38: the Done press of the slot-programming menu sets every pattern
\* entry at an index >= configSlotCount to 0 and leaves the entries below
\* unchanged, writes that pattern to the EEPROM, and goes to the config menu
\* with the motor off; the distance jogged but not Set stays in
\* configSlotDistance and is not stored in the pattern.
C38_Done ==
  [][DonePress =>
       /\ \A i \in DOMAIN programmaticSlots :
            programmaticSlots'[i] =
              IF i >= configSlotCount THEN 0 ELSE programmaticSlots[i]
       /\ \A i \in DOMAIN programmaticSlots :
            eeprom'[15 + 2 * i] * 256 + eeprom'[16 + 2 * i] =
              programmaticSlots'[i]
       /\ eepromAccess' = "Write"
       /\ state' = CONFIG_MENU
       /\ ~motorEnabled'
       /\ configSlotCount' = configSlotCount
       /\ configSlotDistance' = configSlotDistance]_vars

\* Done after a jog to 5, a Set and a jog from 1998 to 2000: the pattern
\* and the EEPROM hold the one entry 5, the 2000 is not stored.
C38_Witness ==
  /\ variant = "Customizable"
  /\ state = CONFIG_MENU
  /\ configOption = 6
  /\ button = "Down"
  /\ ~motorEnabled
  /\ configSlotCount = 1
  /\ configSlotDistance = 2000
  /\ programmaticSlots[0] = 5
  /\ \A i \in 1..(MAX_PROGRAMMATIC_SLOTS - 1) : programmaticSlots[i] = 0
  /\ eeprom[16] = 5
  /\ eeprom[18] = 0

\* Every stored pattern entry is at most 2000 and fewer than 64 Set presses
\* have been made.
C39_Programming ==
  /\ variant = "Customizable"
  /\ \A i \in DOMAIN programmaticSlots : programmaticSlots[i] <= 2000
  /\ configSlotCount < MAX_PROGRAMMATIC_SLOTS
  /\ edits < MAX_PROGRAMMATIC_SLOTS

\* C39: in the slot-programming menu, as long as every stored pattern entry
\* is <= 2000 and fewer than 64 Set presses have been made,
\* configSlotDistance stays within 0..2000 after every Left, Right and Set
\* press, and every jog moves by a length between 0 and 5 that is exactly
\* the change of configSlotDistance: the 8-bit jog length is not
\* truncated.
C39_JogWithinRange ==
  [][(C39_Programming /\ (SetPress \/ JogPress)) =>
       /\ configSlotDistance \in 0..2000
       /\ (JogPress \/ C39_Programming') => configSlotDistance' \in 0..2000
       /\ JogPress =>
            /\ lastMove'.dist \in 0..5
            /\ lastMove'.isLeft = (button' = "Right")
            /\ configSlotDistance' - configSlotDistance =
                 IF button' = "Right" THEN lastMove'.dist
                 ELSE 0 - lastMove'.dist]_vars

\* The Right press at 1998 has jogged by the 2 that were left up to 2000.
C39_Witness ==
  /\ variant = "Customizable"
  /\ state = CONFIG_CHANGE_VALUE_MENU
  /\ configOption = 6
  /\ button = "Right"
  /\ configSlotCount = 1
  /\ configSlotDistance = 2000
  /\ lastMove.dist = 2
  /\ lastMove.isLeft

====
